---- MODULE Spec2Model ----
(***************************************************************************)
(* Menuzy: restaurant directory and menu management backend.               *)
(*                                                                         *)
(* The state is the PostgreSQL database (one variable per table, plus the  *)
(* SERIAL sequences), the set of access tokens issued so far, the clock,   *)
(* and the response to the last request.  Every HTTP handler is one        *)
(* action: it runs inside one get_db_connection() block, so its writes     *)
(* are committed together or rolled back together.  The tables hold the    *)
(* committed rows, which is what every other connection reads; conn is     *)
(* the open connection of an add_review request taken statement by         *)
(* statement, with the writes it has not committed yet.  pool holds the    *)
(* open connections of requests that overlap with each other: each is at   *)
(* one of its statements, and a statement that PostgreSQL makes wait for    *)
(* another connection is enabled only when that connection has ended.      *)
(*                                                                         *)
(* Python None / SQL NULL is the empty sequence <<>>, a present value v is *)
(* <<v>>.  A pydantic request body is a function whose domain is the set   *)
(* of fields the caller sent (dict(exclude_unset=True)).                   *)
(***************************************************************************)
EXTENDS Integers, Sequences, FiniteSets, TLC

VARIABLES users, categories, restaurants, menu_categories, menu_items,
          reviews, favorites, seq, tokens, now, resp, conn, pool

db == <<users, categories, restaurants, menu_categories, menu_items,
        reviews, favorites>>

vars == <<users, categories, restaurants, menu_categories, menu_items,
          reviews, favorites, seq, tokens, now, resp, conn, pool>>

None == <<>>

Some(v) == <<v>>

\* The connections of requests that overlap in time.
ConnectionIds == {1, 2}

NoConnections == [k \in ConnectionIds |-> None]

\* Python truthiness of an Optional[int]: None and 0 are falsy.
Truthy(opt) == opt # None /\ opt[1] # 0

---------------------------------------------------------------------------
(* Bounds of the model.                                                    *)

MaxUsers == 3

MaxRestaurants == 3

MaxMenuRows == 1

MaxMenuCategories == 2

MaxTime == 1

\* The clock of the token specification, in minutes, and its step.
MaxMinutes == 45

ClockStep == 15

---------------------------------------------------------------------------
(* HTTP status codes.                                                      *)

HTTP_200_OK == 200

HTTP_400_BAD_REQUEST == 400

HTTP_401_UNAUTHORIZED == 401

HTTP_403_FORBIDDEN == 403

HTTP_404_NOT_FOUND == 404

\* An exception that is not an HTTPException leaves the handler through
\* get_db_connection's "raise e" and is answered 500 by the framework.
HTTP_500_INTERNAL_SERVER_ERROR == 500

Emails == {"root@x.com", "a@x.com", "b@x.com", "c@x.com"}

Passwords == {"pw", "other"}

---------------------------------------------------------------------------
(* utils/auth.py                                                           *)

ACCESS_TOKEN_EXPIRE_MINUTES == 30

RECURSIVE DecStr(_)
\* str(n) for n >= 0: the decimal digits, most significant first.
DecStr(n) == IF n < 10 THEN <<n>> ELSE Append(DecStr(n \div 10), n % 10)

RECURSIVE ParseInt(_)
\* int(s) for a string of decimal digits.
ParseInt(s) ==
  IF Len(s) = 0 THEN 0
  ELSE 10 * ParseInt(SubSeq(s, 1, Len(s) - 1)) + s[Len(s)]

Salts == {"s1", "s2"}

\* bcrypt.hashpw(password, salt): the hash carries its salt.
hash_password(password, salt) == [salt |-> salt, digest |-> <<salt, password>>]

\* bcrypt.checkpw re-hashes the password with the salt of the stored hash.
verify_password(password, hashed_password) ==
  hash_password(password, hashed_password.salt) = hashed_password

\* data is {"sub": str(id), "role": role}; no expires_delta is ever passed.
create_access_token(data, t) ==
  [sub |-> data.sub, role |-> data.role,
   exp |-> t + ACCESS_TOKEN_EXPIRE_MINUTES, sig |-> "valid"]

\* A token not signed with SECRET_KEY.
ForgedToken ==
  [sub |-> Some(DecStr(1)), role |-> Some("super_admin"),
   exp |-> ACCESS_TOKEN_EXPIRE_MINUTES, sig |-> "invalid"]

\* A string that is not three base64url segments.
MalformedToken ==
  [sub |-> Some(DecStr(1)), role |-> Some("super_admin"),
   exp |-> ACCESS_TOKEN_EXPIRE_MINUTES, sig |-> "malformed"]

\* Tokens signed with SECRET_KEY whose payload lacks "sub", or "role".
NoSubToken ==
  [sub |-> None, role |-> Some("super_admin"),
   exp |-> ACCESS_TOKEN_EXPIRE_MINUTES, sig |-> "valid"]

NoRoleToken ==
  [sub |-> Some(DecStr(1)), role |-> None,
   exp |-> ACCESS_TOKEN_EXPIRE_MINUTES, sig |-> "valid"]

jwt_decode_ignoring_exp(token, t) == token.sig = "valid"

\* jwt.decode: the signature is checked, then the expiry.
jwt_decode_ok(token, t) == token.sig = "valid" /\ t < token.exp

verify_token(token, t) ==
  IF jwt_decode_ok(token, t) /\ token.sub # None
  THEN [ok |-> TRUE, sub |-> token.sub, role |-> token.role]
  ELSE [ok |-> FALSE, sub |-> None, role |-> None]

get_current_user_id(token, t) == ParseInt(verify_token(token, t).sub[1])

get_stored_user_role(token, t) ==
  LET rows == {u \in users : u.id = get_current_user_id(token, t)}
  IN IF ~verify_token(token, t).ok \/ rows = {} THEN None
     ELSE Some((CHOOSE u \in rows : TRUE).role)

get_current_user_role(token, t) == verify_token(token, t).role

Credentials == tokens \cup {ForgedToken}

---------------------------------------------------------------------------
(* database/connection.py                                                  *)

\* psycopg2.connect(..., cursor_factory=RealDictCursor): every cursor of the
\* connection, conn.cursor() included, yields RealDictRow rows, which are
\* dictionaries keyed by column name.  row[key] with a key that is not a
\* column name (a position, as in row[0]) raises KeyError.
ByName(column) == [kind |-> "name", name |-> column, pos |-> 0]

ByPosition(i) == [kind |-> "position", name |-> "", pos |-> i]

RealDictRowHas(row, key) == key.kind = "name" /\ key.name \in DOMAIN row

\* The ten default categories of init_db, ids 1..10.
DefaultCategoryNames ==
  <<"Fast Food", "Fine Dining", "Cafe", "Pizza", "Asian", "Italian",
    "Mexican", "Indian", "Desserts", "Healthy">>

DefaultCategories ==
  {[id |-> i, name |-> DefaultCategoryNames[i]] : i \in 1..Len(DefaultCategoryNames)}

DefaultInsertedAlways(cats, name) == TRUE

\* "ON CONFLICT (name) DO NOTHING": a default row is inserted unless a
\* category already has its name.
DefaultInserted(cats, name) == ~\E c \in cats : c.name = name

\* The ten rows of init_db's INSERT, taken in order from row i on; every
\* row draws an id from the sequence, inserted or not.
RECURSIVE InsertDefaults(_, _, _)
InsertDefaults(cats, next_id, i) ==
  IF i > Len(DefaultCategoryNames) THEN cats
  ELSE InsertDefaults(
         IF DefaultInserted(cats, DefaultCategoryNames[i])
         THEN cats \cup {[id |-> next_id, name |-> DefaultCategoryNames[i]]}
         ELSE cats,
         next_id + 1, i + 1)

\* Times the application starts.
MaxStarts == 2

\* CHECK (rating >= 1 AND rating <= 5)
MinRating == 1

MaxRating == 5

\* rating DECIMAL(3, 2) DEFAULT 0.0 and total_reviews INTEGER DEFAULT 0;
\* ratings are kept in hundredths.
DefaultRating == 0

DefaultTotalReviews == 0

---------------------------------------------------------------------------
(* Responses.  status and detail are those of the HTTPException raised (or *)
(* 200 and "" on return); queried tells whether the handler had opened a   *)
(* database connection when it answered.                                   *)

Response(op, cred, args, status, detail, body, queried) ==
  [op |-> op, cred |-> cred, args |-> args, status |-> status,
   detail |-> detail, body |-> body, queried |-> queried]

NoArgs == [none |-> TRUE]

NoBody == [none |-> TRUE]

Gate(status, detail, user_id, queried) ==
  [status |-> status, detail |-> detail, user_id |-> user_id, queried |-> queried]

CredentialsError == Gate(HTTP_401_UNAUTHORIZED, "Could not validate credentials", 0, FALSE)

\* The answer of a handler whose gate raised.
Rejected(op, cred, args, g) ==
  Response(op, cred, args, g.status, g.detail, NoBody, g.queried)

\* An exception other than HTTPException inside the with-block: rollback, 500.
ServerError(op, cred, args, what) ==
  Response(op, cred, args, HTTP_500_INTERNAL_SERVER_ERROR, what, NoBody, TRUE)

---------------------------------------------------------------------------
(* routers/superadmin.py and routers/admin.py: the gates                   *)

verify_super_admin(cred, t) ==
  IF ~verify_token(cred, t).ok THEN CredentialsError
  ELSE IF get_current_user_role(cred, t) # Some("super_admin")
  THEN Gate(HTTP_403_FORBIDDEN, "Super admin access required", 0, FALSE)
  ELSE Gate(HTTP_200_OK, "", 0, FALSE)

AdminRolesWithCustomer ==
  {Some("customer"), Some("restaurant_admin"), Some("super_admin")}

AdminRoles == {Some("restaurant_admin"), Some("super_admin")}

OwnershipCheckedForAnyRole(restaurant_id, user_role) == Truthy(restaurant_id)

\* "if restaurant_id and user_role == 'restaurant_admin'"
OwnershipChecked(restaurant_id, user_role) ==
  Truthy(restaurant_id) /\ user_role = Some("restaurant_admin")

\* "restaurant[0]": the owner_id column read by position.
OwnerIdKey == ByPosition(0)

\* restaurant_id is None (the default), or Some(id).
verify_restaurant_admin(cred, restaurant_id, t, rs) ==
  IF ~verify_token(cred, t).ok THEN CredentialsError
  ELSE
    LET user_id == get_current_user_id(cred, t)
        user_role == get_current_user_role(cred, t)
    IN IF user_role \notin AdminRoles
       THEN Gate(HTTP_403_FORBIDDEN,
                 "Not authorized to access restaurant admin features", 0, FALSE)
       ELSE IF OwnershipChecked(restaurant_id, user_role)
       THEN LET found == {[owner_id |-> r.owner_id] : r \in {x \in rs : x.id = restaurant_id[1]}}
            IN IF found = {}
               THEN Gate(HTTP_403_FORBIDDEN,
                         "Not authorized to manage this restaurant", 0, TRUE)
               ELSE LET restaurant == CHOOSE row \in found : TRUE
                    IN IF ~RealDictRowHas(restaurant, OwnerIdKey)
                       THEN Gate(HTTP_500_INTERNAL_SERVER_ERROR, "KeyError", 0, TRUE)
                       ELSE IF restaurant[OwnerIdKey.name] # user_id
                       THEN Gate(HTTP_403_FORBIDDEN,
                                 "Not authorized to manage this restaurant", 0, TRUE)
                       ELSE Gate(HTTP_200_OK, "", user_id, TRUE)
       ELSE Gate(HTTP_200_OK, "", user_id, FALSE)

\* The gate called on its own, with a restaurant id.
CheckRestaurantAdmin(cred, restaurant_id) ==
  /\ resp' = Rejected("verify_restaurant_admin", cred,
                      [restaurant_id |-> restaurant_id],
                      verify_restaurant_admin(cred, restaurant_id, now, restaurants))
  /\ UNCHANGED <<db, seq, tokens, now, conn, pool>>

---------------------------------------------------------------------------
(* routers/superadmin.py                                                   *)

CategoryName(category_id) ==
  LET found == {c \in categories : Some(c.id) = category_id}
  IN IF found = {} THEN None ELSE Some((CHOOSE c \in found : TRUE).name)

get_dashboard_stats(cred) ==
  LET g == verify_super_admin(cred, now)
  IN /\ resp' = IF g.status # HTTP_200_OK
                THEN Rejected("get_dashboard_stats", cred, NoArgs, g)
                ELSE Response("get_dashboard_stats", cred, NoArgs, HTTP_200_OK, "",
                       [total_restaurants |-> Cardinality({r \in restaurants : r.is_active}),
                        total_users |-> Cardinality({u \in users : u.is_active}),
                        total_reviews |-> Cardinality(reviews),
                        total_categories |-> Cardinality(categories)], TRUE)
     /\ UNCHANGED <<db, seq, tokens, now, conn, pool>>

\* restaurant_data: [name, category_id, latitude, longitude] (RestaurantCreate).
OwnerRoleCustomer == "customer"

\* The role literal of "UPDATE users SET role = 'restaurant_admin'" and of
\* "INSERT INTO users (...) VALUES (%s, %s, %s, 'restaurant_admin')".
OwnerRole == "restaurant_admin"

rollback_keeping_writes(before, written) == written

\* get_db_connection: "except Exception: conn.rollback()" discards what
\* the statements of the request have written.
rollback(before, written) == before

create_restaurant_with_owner(cred, restaurant_data, owner_email) ==
  LET op == "create_restaurant_with_owner"
      args == [restaurant_data |-> restaurant_data, owner_email |-> owner_email]
      g == verify_super_admin(cred, now)
  IN IF g.status # HTTP_200_OK
     THEN /\ resp' = Rejected(op, cred, args, g)
          /\ UNCHANGED <<db, seq, tokens, now, conn, pool>>
     ELSE
       LET existing_user == {u \in users : u.email = owner_email}
           owner_id == IF existing_user # {}
                       THEN (CHOOSE u \in existing_user : TRUE).id
                       ELSE seq.users
           users_after ==
             IF existing_user # {}
             THEN {IF u.id = owner_id THEN [u EXCEPT !.role = OwnerRole] ELSE u
                   : u \in users}
             ELSE users \cup {[id |-> owner_id, email |-> owner_email,
                               password_hash |-> None, role |-> OwnerRole,
                               is_active |-> TRUE]}
           seq_after ==
             [seq EXCEPT !.users = IF existing_user # {} THEN @ ELSE @ + 1,
                         !.restaurants = @ + 1]
           new_restaurant ==
             [id |-> seq.restaurants, name |-> restaurant_data.name,
              category_id |-> Some(restaurant_data.category_id),
              owner_id |-> owner_id,
              latitude |-> restaurant_data.latitude,
              longitude |-> restaurant_data.longitude,
              is_active |-> TRUE, rating |-> DefaultRating,
              total_reviews |-> DefaultTotalReviews, updated_at |-> now]
       IN /\ seq.restaurants <= MaxRestaurants
          /\ existing_user = {} => seq.users <= MaxUsers
          /\ seq' = seq_after
          /\ IF CategoryName(Some(restaurant_data.category_id)) = None
             THEN \* category_id REFERENCES categories(id): the insert fails
                  \* after the owner statement has written
                  /\ resp' = ServerError(op, cred, args, "ForeignKeyViolation")
                  /\ users' = rollback(users, users_after)
                  /\ UNCHANGED <<categories, restaurants, menu_categories, menu_items,
                                 reviews, favorites, tokens, now, conn, pool>>
             ELSE /\ users' = users_after
                  /\ restaurants' = restaurants \cup {new_restaurant}
                  /\ resp' = Response(op, cred, args, HTTP_200_OK, "",
                                      [row |-> new_restaurant,
                                       category_name |-> CategoryName(new_restaurant.category_id)],
                                      TRUE)
                  /\ UNCHANGED <<categories, menu_categories, menu_items, reviews,
                                 favorites, tokens, now, conn, pool>>

get_all_restaurants(cred) ==
  LET g == verify_super_admin(cred, now)
  IN /\ resp' = IF g.status # HTTP_200_OK
                THEN Rejected("get_all_restaurants", cred, NoArgs, g)
                ELSE Response("get_all_restaurants", cred, NoArgs, HTTP_200_OK, "",
                              [rows |-> restaurants], TRUE)
     /\ UNCHANGED <<db, seq, tokens, now, conn, pool>>

update_fields_with_null(data) == DOMAIN data

\* "for field, value in restaurant_data.dict(exclude_unset=True).items():
\*      if value is not None: update_fields.append(...)"
update_fields(data) == {f \in DOMAIN data : data[f] # None}

\* "if not update_fields"
NoFieldsToUpdate(fields) == fields = {}

update_restaurant(cred, restaurant_id, restaurant_data) ==
  LET op == "update_restaurant"
      args == [restaurant_id |-> restaurant_id, restaurant_data |-> restaurant_data]
      g == verify_super_admin(cred, now)
      fields == update_fields(restaurant_data)
      target == {r \in restaurants : r.id = restaurant_id}
      Updated(r) ==
        [r EXCEPT !.name = IF "name" \in fields THEN restaurant_data["name"][1] ELSE @,
                  !.category_id = IF "category_id" \in fields
                                  THEN restaurant_data["category_id"] ELSE @,
                  !.latitude = IF "latitude" \in fields
                               THEN restaurant_data["latitude"] ELSE @,
                  !.updated_at = now]
  IN IF g.status # HTTP_200_OK
     THEN /\ resp' = Rejected(op, cred, args, g)
          /\ UNCHANGED <<db, seq, tokens, now, conn, pool>>
     ELSE IF NoFieldsToUpdate(fields)
     THEN /\ resp' = Response(op, cred, args, HTTP_400_BAD_REQUEST,
                              "No fields to update", NoBody, TRUE)
          /\ UNCHANGED <<db, seq, tokens, now, conn, pool>>
     ELSE IF target = {}
     THEN /\ resp' = Response(op, cred, args, HTTP_404_NOT_FOUND,
                              "Restaurant not found", NoBody, TRUE)
          /\ UNCHANGED <<db, seq, tokens, now, conn, pool>>
     ELSE IF "category_id" \in fields /\ CategoryName(restaurant_data["category_id"]) = None
     THEN /\ resp' = ServerError(op, cred, args, "ForeignKeyViolation")
          /\ UNCHANGED <<db, seq, tokens, now, conn, pool>>
     ELSE LET updated_restaurant == Updated(CHOOSE r \in target : TRUE)
          IN /\ restaurants' = (restaurants \ target) \cup {updated_restaurant}
             /\ resp' = Response(op, cred, args, HTTP_200_OK, "",
                                 [row |-> updated_restaurant,
                                  category_name |-> CategoryName(updated_restaurant.category_id)],
                                 TRUE)
             /\ UNCHANGED <<users, categories, menu_categories, menu_items, reviews,
                            favorites, seq, tokens, now, conn, pool>>

get_all_users(cred) ==
  LET g == verify_super_admin(cred, now)
  IN /\ resp' = IF g.status # HTTP_200_OK
                THEN Rejected("get_all_users", cred, NoArgs, g)
                ELSE Response("get_all_users", cred, NoArgs, HTTP_200_OK, "",
                              [rows |-> {[id |-> u.id, email |-> u.email, role |-> u.role,
                                          is_active |-> u.is_active] : u \in users}], TRUE)
     /\ UNCHANGED <<db, seq, tokens, now, conn, pool>>

get_user_details(cred, user_id) ==
  LET op == "get_user_details"
      args == [user_id |-> user_id]
      g == verify_super_admin(cred, now)
      user == {u \in users : u.id = user_id}
  IN /\ resp' = IF g.status # HTTP_200_OK THEN Rejected(op, cred, args, g)
                ELSE IF user = {}
                THEN Response(op, cred, args, HTTP_404_NOT_FOUND, "User not found",
                              NoBody, TRUE)
                ELSE Response(op, cred, args, HTTP_200_OK, "",
                              [rows |-> {[id |-> u.id, email |-> u.email, role |-> u.role,
                                          is_active |-> u.is_active] : u \in user}], TRUE)
     /\ UNCHANGED <<db, seq, tokens, now, conn, pool>>

get_categories(cred) ==
  LET g == verify_super_admin(cred, now)
  IN /\ resp' = IF g.status # HTTP_200_OK
                THEN Rejected("get_categories", cred, NoArgs, g)
                ELSE Response("get_categories", cred, NoArgs, HTTP_200_OK, "",
                              [rows |-> categories], TRUE)
     /\ UNCHANGED <<db, seq, tokens, now, conn, pool>>

\* Rows the categories table may gain beyond the ten defaults.
MaxNewCategories == 1

\* lifespan: init_db() at every start of the application.  CREATE TABLE and
\* CREATE INDEX are IF NOT EXISTS; the default categories are inserted.
init_db ==
  /\ seq.categories <= Len(DefaultCategoryNames) * MaxStarts + MaxNewCategories
  /\ categories' = InsertDefaults(categories, seq.categories, 1)
  /\ seq' = [seq EXCEPT !.categories = @ + Len(DefaultCategoryNames)]
  /\ resp' = Response("init_db", None, NoArgs, HTTP_200_OK, "", NoBody, TRUE)
  /\ UNCHANGED <<users, restaurants, menu_categories, menu_items, reviews, favorites,
                 tokens, now, conn, pool>>

create_category(cred, name) ==
  LET op == "create_category"
      args == [name |-> name]
      g == verify_super_admin(cred, now)
      new_category == [id |-> seq.categories, name |-> name]
  IN IF g.status # HTTP_200_OK
     THEN /\ resp' = Rejected(op, cred, args, g)
          /\ UNCHANGED <<db, seq, tokens, now, conn, pool>>
     ELSE /\ seq.categories <= Len(DefaultCategoryNames) + MaxNewCategories
          /\ seq' = [seq EXCEPT !.categories = @ + 1]
          /\ IF \E c \in categories : c.name = name
             THEN \* name VARCHAR(100) NOT NULL UNIQUE
                  /\ resp' = ServerError(op, cred, args, "UniqueViolation")
                  /\ UNCHANGED <<db, tokens, now, conn, pool>>
             ELSE /\ categories' = categories \cup {new_category}
                  /\ resp' = Response(op, cred, args, HTTP_200_OK, "",
                                      [row |-> new_category], TRUE)
                  /\ UNCHANGED <<users, restaurants, menu_categories, menu_items,
                                 reviews, favorites, tokens, now, conn, pool>>

update_category(cred, category_id, name) ==
  LET op == "update_category"
      args == [category_id |-> category_id, name |-> name]
      g == verify_super_admin(cred, now)
      target == {c \in categories : c.id = category_id}
      updated_category == [id |-> category_id, name |-> name]
  IN IF g.status # HTTP_200_OK
     THEN /\ resp' = Rejected(op, cred, args, g)
          /\ UNCHANGED <<db, seq, tokens, now, conn, pool>>
     ELSE IF target = {}
     THEN /\ resp' = Response(op, cred, args, HTTP_404_NOT_FOUND, "Category not found",
                              NoBody, TRUE)
          /\ UNCHANGED <<db, seq, tokens, now, conn, pool>>
     ELSE IF \E c \in categories \ target : c.name = name
     THEN /\ resp' = ServerError(op, cred, args, "UniqueViolation")
          /\ UNCHANGED <<db, seq, tokens, now, conn, pool>>
     ELSE /\ categories' = (categories \ target) \cup {updated_category}
          /\ resp' = Response(op, cred, args, HTTP_200_OK, "",
                              [row |-> updated_category], TRUE)
          /\ UNCHANGED <<users, restaurants, menu_categories, menu_items, reviews,
                         favorites, seq, tokens, now, conn, pool>>

\* "count = cursor.fetchone()[0]": the COUNT(*) column read by position.
CountKey == ByPosition(0)

delete_category(cred, category_id) ==
  LET op == "delete_category"
      args == [category_id |-> category_id]
      g == verify_super_admin(cred, now)
      row == [count |-> Cardinality({r \in restaurants : r.category_id = Some(category_id)})]
      target == {c \in categories : c.id = category_id}
  IN IF g.status # HTTP_200_OK
     THEN /\ resp' = Rejected(op, cred, args, g)
          /\ UNCHANGED <<db, seq, tokens, now, conn, pool>>
     ELSE IF ~RealDictRowHas(row, CountKey)
     THEN /\ resp' = ServerError(op, cred, args, "KeyError")
          /\ UNCHANGED <<db, seq, tokens, now, conn, pool>>
     ELSE IF row[CountKey.name] > 0
     THEN /\ resp' = Response(op, cred, args, HTTP_400_BAD_REQUEST,
                              "Cannot delete category that is being used by restaurants",
                              NoBody, TRUE)
          /\ UNCHANGED <<db, seq, tokens, now, conn, pool>>
     ELSE IF target = {}
     THEN /\ resp' = Response(op, cred, args, HTTP_404_NOT_FOUND, "Category not found",
                              NoBody, TRUE)
          /\ UNCHANGED <<db, seq, tokens, now, conn, pool>>
     ELSE /\ categories' = categories \ target
          /\ resp' = Response(op, cred, args, HTTP_200_OK,
                              "Category deleted successfully", NoBody, TRUE)
          /\ UNCHANGED <<users, restaurants, menu_categories, menu_items, reviews,
                         favorites, seq, tokens, now, conn, pool>>

---------------------------------------------------------------------------
(* routers/admin.py                                                        *)

\* "SELECT ... FROM restaurants WHERE owner_id = %s" followed by fetchone():
\* the statement has no ORDER BY, so any matching row may come first.
OwnedRestaurants(user_id) == {r \in restaurants : r.owner_id = user_id}

NoRestaurant(op, cred, args, detail) ==
  Response(op, cred, args, HTTP_404_NOT_FOUND, detail, NoBody, TRUE)

get_my_restaurant(cred) ==
  LET op == "get_my_restaurant"
      g == verify_restaurant_admin(cred, None, now, restaurants)
  IN /\ IF g.status # HTTP_200_OK THEN resp' = Rejected(op, cred, NoArgs, g)
        ELSE IF OwnedRestaurants(g.user_id) = {}
        THEN resp' = NoRestaurant(op, cred, NoArgs, "No restaurant found for this admin")
        ELSE \E restaurant \in OwnedRestaurants(g.user_id) :
               resp' = Response(op, cred, NoArgs, HTTP_200_OK, "",
                                [row |-> restaurant,
                                 category_name |-> CategoryName(restaurant.category_id)],
                                TRUE)
     /\ UNCHANGED <<db, seq, tokens, now, conn, pool>>

get_menu_categories(cred) ==
  LET op == "get_menu_categories"
      g == verify_restaurant_admin(cred, None, now, restaurants)
  IN /\ IF g.status # HTTP_200_OK THEN resp' = Rejected(op, cred, NoArgs, g)
        ELSE IF OwnedRestaurants(g.user_id) = {}
        THEN resp' = NoRestaurant(op, cred, NoArgs, "No restaurant found")
        ELSE \E restaurant \in OwnedRestaurants(g.user_id) :
               resp' = Response(op, cred, NoArgs, HTTP_200_OK, "",
                                [rows |-> {mc \in menu_categories :
                                             mc.restaurant_id = restaurant.id}], TRUE)
     /\ UNCHANGED <<db, seq, tokens, now, conn, pool>>

create_menu_category(cred, name) ==
  LET op == "create_menu_category"
      args == [name |-> name]
      g == verify_restaurant_admin(cred, None, now, restaurants)
  IN IF g.status # HTTP_200_OK
     THEN /\ resp' = Rejected(op, cred, args, g)
          /\ UNCHANGED <<db, seq, tokens, now, conn, pool>>
     ELSE IF OwnedRestaurants(g.user_id) = {}
     THEN /\ resp' = NoRestaurant(op, cred, args, "No restaurant found")
          /\ UNCHANGED <<db, seq, tokens, now, conn, pool>>
     ELSE \E restaurant \in OwnedRestaurants(g.user_id) :
            LET new_category == [id |-> seq.menu_categories,
                                 restaurant_id |-> restaurant.id, name |-> name]
            IN /\ seq.menu_categories <= MaxMenuCategories
               /\ seq' = [seq EXCEPT !.menu_categories = @ + 1]
               /\ menu_categories' = menu_categories \cup {new_category}
               /\ resp' = Response(op, cred, args, HTTP_200_OK, "",
                                   [row |-> new_category], TRUE)
               /\ UNCHANGED <<users, categories, restaurants, menu_items, reviews,
                              favorites, tokens, now, conn, pool>>

MenuCategoryName(menu_category_id) ==
  LET found == {mc \in menu_categories : mc.id = menu_category_id}
  IN IF found = {} THEN None ELSE Some((CHOOSE mc \in found : TRUE).name)

get_menu_items(cred) ==
  LET op == "get_menu_items"
      g == verify_restaurant_admin(cred, None, now, restaurants)
  IN /\ IF g.status # HTTP_200_OK THEN resp' = Rejected(op, cred, NoArgs, g)
        ELSE IF OwnedRestaurants(g.user_id) = {}
        THEN resp' = NoRestaurant(op, cred, NoArgs, "No restaurant found")
        ELSE \E restaurant \in OwnedRestaurants(g.user_id) :
               resp' = Response(op, cred, NoArgs, HTTP_200_OK, "",
                                [rows |-> {mi \in menu_items :
                                             mi.restaurant_id = restaurant.id}], TRUE)
     /\ UNCHANGED <<db, seq, tokens, now, conn, pool>>

\* menu_item: [menu_category_id, name, price] (MenuItemCreate).
MenuCategoryExists(menu_category_id, restaurant_id) ==
  \E mc \in menu_categories : mc.id = menu_category_id

\* "SELECT id FROM menu_categories WHERE id = %s AND restaurant_id = %s" finds a row.
MenuCategoryOfRestaurant(menu_category_id, restaurant_id) ==
  \E mc \in menu_categories : mc.id = menu_category_id /\ mc.restaurant_id = restaurant_id

create_menu_item(cred, menu_item) ==
  LET op == "create_menu_item"
      args == [menu_item |-> menu_item]
      g == verify_restaurant_admin(cred, None, now, restaurants)
  IN IF g.status # HTTP_200_OK
     THEN /\ resp' = Rejected(op, cred, args, g)
          /\ UNCHANGED <<db, seq, tokens, now, conn, pool>>
     ELSE IF OwnedRestaurants(g.user_id) = {}
     THEN /\ resp' = NoRestaurant(op, cred, args, "No restaurant found")
          /\ UNCHANGED <<db, seq, tokens, now, conn, pool>>
     ELSE \E restaurant \in OwnedRestaurants(g.user_id) :
            LET restaurant_id == restaurant.id
                category_ok == MenuCategoryOfRestaurant(menu_item.menu_category_id,
                                                        restaurant_id)
                new_item == [id |-> seq.menu_items, restaurant_id |-> restaurant_id,
                             menu_category_id |-> menu_item.menu_category_id,
                             name |-> menu_item.name, price |-> menu_item.price,
                             is_available |-> TRUE, updated_at |-> now]
            IN IF ~category_ok
               THEN /\ resp' = Response(op, cred, args, HTTP_400_BAD_REQUEST,
                                        "Invalid menu category", NoBody, TRUE)
                    /\ UNCHANGED <<db, seq, tokens, now, conn, pool>>
               ELSE /\ seq.menu_items <= MaxMenuRows
                    /\ seq' = [seq EXCEPT !.menu_items = @ + 1]
                    /\ menu_items' = menu_items \cup {new_item}
                    /\ resp' = Response(op, cred, args, HTTP_200_OK, "",
                                        [row |-> new_item,
                                         category_name |->
                                           MenuCategoryName(new_item.menu_category_id)],
                                        TRUE)
                    /\ UNCHANGED <<users, categories, restaurants, menu_categories,
                                   reviews, favorites, tokens, now, conn, pool>>

update_menu_item(cred, item_id, menu_item) ==
  LET op == "update_menu_item"
      args == [item_id |-> item_id, menu_item |-> menu_item]
      g == verify_restaurant_admin(cred, None, now, restaurants)
      fields == update_fields(menu_item)
      Updated(mi) ==
        [mi EXCEPT !.menu_category_id = IF "menu_category_id" \in fields
                                        THEN menu_item["menu_category_id"][1] ELSE @,
                   !.name = IF "name" \in fields THEN menu_item["name"][1] ELSE @,
                   !.price = IF "price" \in fields THEN menu_item["price"][1] ELSE @,
                   !.is_available = IF "is_available" \in fields
                                    THEN menu_item["is_available"][1] ELSE @,
                   !.updated_at = now]
  IN IF g.status # HTTP_200_OK
     THEN /\ resp' = Rejected(op, cred, args, g)
          /\ UNCHANGED <<db, seq, tokens, now, conn, pool>>
     ELSE IF OwnedRestaurants(g.user_id) = {}
     THEN /\ resp' = NoRestaurant(op, cred, args, "No restaurant found")
          /\ UNCHANGED <<db, seq, tokens, now, conn, pool>>
     ELSE \E restaurant \in OwnedRestaurants(g.user_id) :
            LET existing_item == {mi \in menu_items :
                                    mi.id = item_id /\ mi.restaurant_id = restaurant.id}
            IN IF existing_item = {}
               THEN /\ resp' = Response(op, cred, args, HTTP_404_NOT_FOUND,
                                        "Menu item not found", NoBody, TRUE)
                    /\ UNCHANGED <<db, seq, tokens, now, conn, pool>>
               ELSE IF NoFieldsToUpdate(fields)
               THEN /\ resp' = Response(op, cred, args, HTTP_400_BAD_REQUEST,
                                        "No fields to update", NoBody, TRUE)
                    /\ UNCHANGED <<db, seq, tokens, now, conn, pool>>
               ELSE IF /\ "menu_category_id" \in fields
                       /\ MenuCategoryName(menu_item["menu_category_id"][1]) = None
               THEN \* menu_category_id REFERENCES menu_categories(id)
                    /\ resp' = ServerError(op, cred, args, "ForeignKeyViolation")
                    /\ UNCHANGED <<db, seq, tokens, now, conn, pool>>
               ELSE LET updated_item == Updated(CHOOSE mi \in existing_item : TRUE)
                    IN /\ menu_items' = (menu_items \ existing_item) \cup {updated_item}
                       /\ resp' = Response(op, cred, args, HTTP_200_OK, "",
                                           [row |-> updated_item,
                                            category_name |->
                                              MenuCategoryName(updated_item.menu_category_id)],
                                           TRUE)
                       /\ UNCHANGED <<users, categories, restaurants, menu_categories,
                                      reviews, favorites, seq, tokens, now, conn, pool>>

\* "restaurant[0]": the id column read by position.
RestaurantIdKey == ByPosition(0)

delete_menu_item(cred, item_id) ==
  LET op == "delete_menu_item"
      args == [item_id |-> item_id]
      g == verify_restaurant_admin(cred, None, now, restaurants)
  IN IF g.status # HTTP_200_OK
     THEN /\ resp' = Rejected(op, cred, args, g)
          /\ UNCHANGED <<db, seq, tokens, now, conn, pool>>
     ELSE IF OwnedRestaurants(g.user_id) = {}
     THEN /\ resp' = NoRestaurant(op, cred, args, "No restaurant found")
          /\ UNCHANGED <<db, seq, tokens, now, conn, pool>>
     ELSE \E owned \in OwnedRestaurants(g.user_id) :
            LET restaurant == [id |-> owned.id]
            IN IF ~RealDictRowHas(restaurant, RestaurantIdKey)
               THEN /\ resp' = ServerError(op, cred, args, "KeyError")
                    /\ UNCHANGED <<db, seq, tokens, now, conn, pool>>
               ELSE LET deleted == {mi \in menu_items :
                                      /\ mi.id = item_id
                                      /\ mi.restaurant_id = restaurant[RestaurantIdKey.name]}
                    IN IF deleted = {}
                       THEN /\ resp' = Response(op, cred, args, HTTP_404_NOT_FOUND,
                                                "Menu item not found", NoBody, TRUE)
                            /\ UNCHANGED <<db, seq, tokens, now, conn, pool>>
                       ELSE /\ menu_items' = menu_items \ deleted
                            /\ resp' = Response(op, cred, args, HTTP_200_OK,
                                                "Menu item deleted successfully",
                                                NoBody, TRUE)
                            /\ UNCHANGED <<users, categories, restaurants, menu_categories,
                                           reviews, favorites, seq, tokens, now, conn, pool>>

\* location: [latitude, longitude] (LocationUpdate; both required).
update_location(cred, location) ==
  LET op == "update_location"
      args == [location |-> location]
      g == verify_restaurant_admin(cred, None, now, restaurants)
      owned == OwnedRestaurants(g.user_id)
  IN IF g.status # HTTP_200_OK
     THEN /\ resp' = Rejected(op, cred, args, g)
          /\ UNCHANGED <<db, seq, tokens, now, conn, pool>>
     ELSE IF owned = {}
     THEN /\ resp' = NoRestaurant(op, cred, args, "Restaurant not found")
          /\ UNCHANGED <<db, seq, tokens, now, conn, pool>>
     ELSE /\ restaurants' =
               (restaurants \ owned) \cup
               {[r EXCEPT !.latitude = Some(location.latitude),
                          !.longitude = Some(location.longitude),
                          !.updated_at = now] : r \in owned}
          /\ resp' = Response(op, cred, args, HTTP_200_OK,
                              "Location updated successfully", NoBody, TRUE)
          /\ UNCHANGED <<users, categories, menu_categories, menu_items, reviews,
                         favorites, seq, tokens, now, conn, pool>>

admin_get_restaurant_reviews(cred) ==
  LET op == "admin_get_restaurant_reviews"
      g == verify_restaurant_admin(cred, None, now, restaurants)
  IN /\ IF g.status # HTTP_200_OK THEN resp' = Rejected(op, cred, NoArgs, g)
        ELSE IF OwnedRestaurants(g.user_id) = {}
        THEN resp' = NoRestaurant(op, cred, NoArgs, "No restaurant found")
        ELSE \E restaurant \in OwnedRestaurants(g.user_id) :
               resp' = Response(op, cred, NoArgs, HTTP_200_OK, "",
                                [rows |-> {rv \in reviews :
                                             rv.restaurant_id = restaurant.id}], TRUE)
     /\ UNCHANGED <<db, seq, tokens, now, conn, pool>>

---------------------------------------------------------------------------
(* routers/auth.py                                                         *)

\* The role register writes into the INSERT.
RegisterRoleAdmin == "restaurant_admin"

\* The role literal of register's INSERT.
RegisterRole == "customer"

TokenFor(user, t) ==
  create_access_token([sub |-> Some(DecStr(user.id)), role |-> Some(user.role)], t)

PublicUser(u) == [id |-> u.id, email |-> u.email, role |-> u.role, is_active |-> u.is_active]

register(email, password, salt) ==
  LET op == "register"
      args == [email |-> email, password |-> password]
      new_user == [id |-> seq.users, email |-> email,
                   password_hash |-> Some(hash_password(password, salt)),
                   role |-> RegisterRole, is_active |-> TRUE]
      access_token == TokenFor(new_user, now)
  IN IF \E u \in users : u.email = email
     THEN /\ resp' = Response(op, None, args, HTTP_400_BAD_REQUEST,
                              "Email already registered", NoBody, TRUE)
          /\ UNCHANGED <<db, seq, tokens, now, conn, pool>>
     ELSE /\ seq.users <= MaxUsers
          /\ seq' = [seq EXCEPT !.users = @ + 1]
          /\ users' = users \cup {new_user}
          /\ tokens' = tokens \cup {access_token}
          /\ resp' = Response(op, None, args, HTTP_200_OK, "",
                              [access_token |-> access_token, user |-> PublicUser(new_user)],
                              TRUE)
          /\ UNCHANGED <<categories, restaurants, menu_categories, menu_items, reviews,
                         favorites, now, conn, pool>>

\* The response of login over the users table us at time t.
\* register, statement by statement, while other requests are served.

EmailNeverTaken(rows, email) == FALSE

\* users.email is UNIQUE: an INSERT fails when a row has the email.
EmailTaken(rows, email) == \E u \in rows : u.email = email

\* The request up to and including "SELECT id FROM users WHERE email = %s";
\* a request for an email that a user has ends here, as in register.
register_select(k, email, password, salt) ==
  /\ pool[k] = None
  /\ IF \E u \in users : u.email = email
     THEN register(email, password, salt)
     ELSE /\ pool' = [pool EXCEPT ![k] = Some([op |-> "register", email |-> email,
                                                password |-> password, salt |-> salt])]
          /\ UNCHANGED <<db, seq, tokens, now, resp, conn>>

\* "INSERT INTO users", conn.commit(), the token and the response.  An
\* INSERT that meets the uncommitted row of another connection with the
\* same email waits until that connection has ended, and nothing is between
\* the INSERT and the commit, so the two are one step.
register_insert(k) ==
  /\ pool[k] # None
  /\ pool[k][1].op = "register"
  /\ LET email == pool[k][1].email
         args == [email |-> email, password |-> pool[k][1].password]
         new_user == [id |-> seq.users, email |-> email,
                      password_hash |->
                        Some(hash_password(pool[k][1].password, pool[k][1].salt)),
                      role |-> RegisterRole, is_active |-> TRUE]
         access_token == TokenFor(new_user, now)
     IN /\ seq.users <= MaxUsers
        /\ seq' = [seq EXCEPT !.users = @ + 1]
        /\ IF EmailTaken(users, email)
           THEN /\ resp' = ServerError("register", None, args, "UniqueViolation")
                /\ UNCHANGED <<db, tokens>>
           ELSE /\ users' = users \cup {new_user}
                /\ tokens' = tokens \cup {access_token}
                /\ resp' = Response("register", None, args, HTTP_200_OK, "",
                                    [access_token |-> access_token,
                                     user |-> PublicUser(new_user)], TRUE)
                /\ UNCHANGED <<categories, restaurants, menu_categories, menu_items,
                               reviews, favorites>>
  /\ pool' = [pool EXCEPT ![k] = None]
  /\ UNCHANGED <<now, conn>>

LoginResponse(us, email, password, t) ==
  LET op == "login"
      args == [email |-> email, password |-> password]
      found == {u \in us : u.email = email /\ u.is_active}
  IN IF found = {}
     THEN Response(op, None, args, HTTP_401_UNAUTHORIZED, "Invalid email or password",
                   NoBody, TRUE)
     ELSE LET db_user == CHOOSE u \in found : TRUE
          IN IF db_user.password_hash = None
             THEN \* verify_password(password, None): None has no encode()
                  ServerError(op, None, args, "AttributeError")
             ELSE IF ~verify_password(password, db_user.password_hash[1])
             THEN Response(op, None, args, HTTP_401_UNAUTHORIZED,
                           "Invalid email or password", NoBody, TRUE)
             ELSE Response(op, None, args, HTTP_200_OK, "",
                           [access_token |-> TokenFor(db_user, t),
                            user |-> PublicUser(db_user)], TRUE)

\* GET /auth/me
get_current_user(cred) ==
  LET op == "get_current_user"
      found == {u \in users : u.id = get_current_user_id(cred, now) /\ u.is_active}
  IN /\ IF ~verify_token(cred, now).ok
        THEN resp' = Rejected(op, cred, NoArgs, CredentialsError)
        ELSE IF found = {}
        THEN resp' = Response(op, cred, NoArgs, HTTP_404_NOT_FOUND, "User not found",
                              NoBody, TRUE)
        ELSE resp' = Response(op, cred, NoArgs, HTTP_200_OK, "",
                              [user |-> PublicUser(CHOOSE u \in found : TRUE)], TRUE)
     /\ UNCHANGED <<db, seq, tokens, now, conn, pool>>

login(email, password) ==
  LET r == LoginResponse(users, email, password, now)
  IN /\ resp' = r
     /\ tokens' = IF r.status = HTTP_200_OK THEN tokens \cup {r.body.access_token}
                  ELSE tokens
     /\ UNCHANGED <<db, seq, now, conn, pool>>

---------------------------------------------------------------------------
(* routers/restaurants.py                                                  *)

RECURSIVE SumRatings(_)
SumRatings(rows) ==
  IF rows = {} THEN 0
  ELSE LET r == CHOOSE x \in rows : TRUE IN r.rating + SumRatings(rows \ {r})

TruncDiv(a, b) == a \div b

\* a / b rounded to the nearest integer, halves away from zero (a >= 0, b > 0):
\* the rounding of a numeric cast.
RoundDiv(a, b) == (2 * a + b) \div (2 * b)

\* "SELECT AVG(rating)::DECIMAL(3,2) FROM reviews WHERE restaurant_id = %s",
\* in hundredths, over a non-empty set of rows.
AvgRating(rows) == RoundDiv(100 * SumRatings(rows), Cardinality(rows))

ReviewsOf(rows, restaurant_id) == {rv \in rows : rv.restaurant_id = restaurant_id}

\* The reviews the rating recomputation of add_review reads: the table with
\* the new row already inserted.
RecomputedFrom(reviews_after, restaurant_id) == ReviewsOf(reviews_after, restaurant_id)

ActiveRestaurant(restaurant_id) ==
  \E r \in restaurants : r.id = restaurant_id /\ r.is_active

MaxReviewInserts == 3

NeverReviewed(rows, restaurant_id, user_id) == FALSE

\* "SELECT id FROM reviews WHERE restaurant_id = %s AND user_id = %s" found a row.
AlreadyReviewed(rows, restaurant_id, user_id) ==
  \E rv \in rows : rv.restaurant_id = restaurant_id /\ rv.user_id = user_id

\* review: [rating] (ReviewCreate).
add_review(cred, restaurant_id, review) ==
  LET op == "add_review"
      args == [restaurant_id |-> restaurant_id, review |-> review]
      user_id == get_current_user_id(cred, now)
      new_review == [id |-> seq.reviews, restaurant_id |-> restaurant_id,
                     user_id |-> user_id, rating |-> review.rating]
      reviews_after == reviews \cup {new_review}
      rows == RecomputedFrom(reviews_after, restaurant_id)
  IN IF ~verify_token(cred, now).ok
     THEN /\ resp' = Rejected(op, cred, args, CredentialsError)
          /\ UNCHANGED <<db, seq, tokens, now, conn, pool>>
     ELSE IF ~ActiveRestaurant(restaurant_id)
     THEN /\ resp' = Response(op, cred, args, HTTP_404_NOT_FOUND, "Restaurant not found",
                              NoBody, TRUE)
          /\ UNCHANGED <<db, seq, tokens, now, conn, pool>>
     ELSE IF AlreadyReviewed(reviews, restaurant_id, user_id)
     THEN /\ resp' = Response(op, cred, args, HTTP_400_BAD_REQUEST,
                              "You have already reviewed this restaurant", NoBody, TRUE)
          /\ UNCHANGED <<db, seq, tokens, now, conn, pool>>
     ELSE /\ seq.reviews <= MaxReviewInserts
          /\ seq' = [seq EXCEPT !.reviews = @ + 1]
          /\ IF review.rating < MinRating \/ review.rating > MaxRating
             THEN \* CHECK (rating >= 1 AND rating <= 5)
                  /\ resp' = ServerError(op, cred, args, "CheckViolation")
                  /\ UNCHANGED <<db, tokens, now, conn, pool>>
             ELSE IF ~\E u \in users : u.id = user_id
             THEN \* user_id REFERENCES users(id)
                  /\ resp' = ServerError(op, cred, args, "ForeignKeyViolation")
                  /\ UNCHANGED <<db, tokens, now, conn, pool>>
             ELSE /\ reviews' = reviews_after
                  /\ restaurants' =
                       {IF r.id = restaurant_id
                        THEN [r EXCEPT !.rating = AvgRating(rows),
                                       !.total_reviews = Cardinality(rows)]
                        ELSE r : r \in restaurants}
                  /\ resp' = Response(op, cred, args, HTTP_200_OK, "",
                                      [row |-> new_review], TRUE)
                  /\ UNCHANGED <<users, categories, menu_categories, menu_items,
                                 favorites, tokens, now, conn, pool>>

AlwaysInserted(rows, user_id, restaurant_id) == TRUE

\* "ON CONFLICT (user_id, restaurant_id) DO NOTHING": the row is inserted
\* unless the pair is already there.
FavoriteInserted(rows, user_id, restaurant_id) ==
  ~\E f \in rows : f.user_id = user_id /\ f.restaurant_id = restaurant_id

\* add_review, statement by statement, while other requests are served.

autocommitted(committed, written) == written

\* psycopg2 opens a transaction at the first statement of the connection
\* and autocommit is off: what a statement has written is read by the
\* other connections only after conn.commit().
uncommitted(committed, written) == committed

\* The checks and constraints the INSERT of add_review has to pass.
ReviewInsertable(cred, restaurant_id, review) ==
  /\ verify_token(cred, now).ok
  /\ ActiveRestaurant(restaurant_id)
  /\ ~AlreadyReviewed(reviews, restaurant_id, get_current_user_id(cred, now))
  /\ review.rating >= MinRating
  /\ review.rating <= MaxRating
  /\ \E u \in users : u.id = get_current_user_id(cred, now)

\* The request up to and including "INSERT INTO reviews"; a request that
\* is refused or whose INSERT fails ends here, as in add_review.
add_review_insert(cred, restaurant_id, review) ==
  LET new_review == [id |-> seq.reviews, restaurant_id |-> restaurant_id,
                     user_id |-> get_current_user_id(cred, now),
                     rating |-> review.rating]
  IN /\ conn = None
     /\ IF ~ReviewInsertable(cred, restaurant_id, review)
        THEN add_review(cred, restaurant_id, review)
        ELSE /\ seq.reviews <= MaxReviewInserts
             /\ seq' = [seq EXCEPT !.reviews = @ + 1]
             /\ reviews' = uncommitted(reviews, reviews \cup {new_review})
             /\ conn' = Some([cred |-> cred, restaurant_id |-> restaurant_id,
                              review |-> review, new_review |-> new_review,
                              restaurant_update |-> None])
             /\ UNCHANGED <<users, categories, restaurants, menu_categories, menu_items,
                            favorites, tokens, now, resp, pool>>

\* "UPDATE restaurants SET rating = (SELECT AVG ...), total_reviews =
\* (SELECT COUNT ...)": the connection reads the committed reviews and the
\* row it has inserted.
add_review_recompute ==
  /\ conn # None
  /\ conn[1].restaurant_update = None
  /\ LET rows == RecomputedFrom(reviews \cup {conn[1].new_review}, conn[1].restaurant_id)
         restaurant_update == [rating |-> AvgRating(rows),
                               total_reviews |-> Cardinality(rows)]
     IN /\ conn' = Some([conn[1] EXCEPT !.restaurant_update = Some(restaurant_update)])
        /\ restaurants' =
             uncommitted(restaurants,
                         {IF r.id = conn[1].restaurant_id
                          THEN [r EXCEPT !.rating = restaurant_update.rating,
                                         !.total_reviews = restaurant_update.total_reviews]
                          ELSE r : r \in restaurants})
  /\ UNCHANGED <<users, categories, menu_categories, menu_items, reviews, favorites,
                 seq, tokens, now, resp, pool>>

\* "SELECT full_name", conn.commit(), and the response.
add_review_commit ==
  /\ conn # None
  /\ conn[1].restaurant_update # None
  /\ reviews' = reviews \cup {conn[1].new_review}
  /\ restaurants' =
       {IF r.id = conn[1].restaurant_id
        THEN [r EXCEPT !.rating = conn[1].restaurant_update[1].rating,
                       !.total_reviews = conn[1].restaurant_update[1].total_reviews]
        ELSE r : r \in restaurants}
  /\ resp' = Response("add_review", conn[1].cred,
                      [restaurant_id |-> conn[1].restaurant_id, review |-> conn[1].review],
                      HTTP_200_OK, "", [row |-> conn[1].new_review], TRUE)
  /\ conn' = None
  /\ UNCHANGED <<users, categories, menu_categories, menu_items, favorites,
                 seq, tokens, now, pool>>

\* A statement after the INSERT raises (the server closes the connection,
\* a statement times out): get_db_connection rolls back and closes.
add_review_fail ==
  /\ conn # None
  /\ resp' = ServerError("add_review", conn[1].cred,
                         [restaurant_id |-> conn[1].restaurant_id,
                          review |-> conn[1].review], "OperationalError")
  /\ conn' = None
  /\ UNCHANGED <<db, seq, tokens, now, pool>>

\* GET /restaurants/{restaurant_id}
get_restaurant_detail(restaurant_id) ==
  /\ resp' = IF ~ActiveRestaurant(restaurant_id)
             THEN Response("get_restaurant_detail", None,
                           [restaurant_id |-> restaurant_id], HTTP_404_NOT_FOUND,
                           "Restaurant not found", NoBody, TRUE)
             ELSE Response("get_restaurant_detail", None,
                           [restaurant_id |-> restaurant_id], HTTP_200_OK, "",
                           [row |-> CHOOSE r \in restaurants : r.id = restaurant_id],
                           TRUE)
  /\ UNCHANGED <<db, seq, tokens, now, conn, pool>>

\* GET /restaurants/{restaurant_id}/reviews
get_restaurant_reviews(restaurant_id) ==
  /\ resp' = Response("get_restaurant_reviews", None,
                      [restaurant_id |-> restaurant_id], HTTP_200_OK, "",
                      [rows |-> ReviewsOf(reviews, restaurant_id)], TRUE)
  /\ UNCHANGED <<db, seq, tokens, now, conn, pool>>

\* add_review requests that overlap with each other, each on its own
\* connection of the pool.

ReviewKeyNeverTaken(rows, restaurant_id, user_id) == FALSE

\* reviews: UNIQUE(restaurant_id, user_id)
ReviewKeyTaken(rows, restaurant_id, user_id) ==
  \E rv \in rows : rv.restaurant_id = restaurant_id /\ rv.user_id = user_id

\* The review rows the other connections have inserted and not committed.
PendingReviews(k) ==
  {pool[j][1].new_review[1] :
     j \in {i \in ConnectionIds \ {k} : /\ pool[i] # None
                                         /\ pool[i][1].op = "add_review"
                                         /\ pool[i][1].new_review # None}}

\* Another connection has updated the restaurant row and not committed: it
\* holds the lock of the row.
RestaurantRowLocked(k, restaurant_id) ==
  \E j \in ConnectionIds \ {k} :
    /\ pool[j] # None
    /\ pool[j][1].op = "add_review"
    /\ pool[j][1].pc = "updated"
    /\ pool[j][1].restaurant_id = restaurant_id

\* The request up to and including the two SELECTs (restaurant exists,
\* already reviewed), which read the committed rows; a request they refuse
\* ends here, as in add_review.
review_select(k, cred, restaurant_id, review) ==
  /\ pool[k] = None
  /\ IF ~(/\ verify_token(cred, now).ok
          /\ ActiveRestaurant(restaurant_id)
          /\ ~AlreadyReviewed(reviews, restaurant_id, get_current_user_id(cred, now)))
     THEN add_review(cred, restaurant_id, review)
     ELSE /\ pool' = [pool EXCEPT ![k] =
                        Some([op |-> "add_review", pc |-> "selected", cred |-> cred,
                              restaurant_id |-> restaurant_id, review |-> review,
                              new_review |-> None, restaurant_update |-> None])]
          /\ UNCHANGED <<db, seq, tokens, now, resp, conn>>

\* "INSERT INTO reviews".  While another connection holds an uncommitted
\* row with the same (restaurant_id, user_id) the INSERT waits; when a
\* committed row has the key it fails.
review_insert(k) ==
  /\ pool[k] # None
  /\ pool[k][1].op = "add_review"
  /\ pool[k][1].pc = "selected"
  /\ LET c == pool[k][1]
         user_id == get_current_user_id(c.cred, now)
         args == [restaurant_id |-> c.restaurant_id, review |-> c.review]
         new_review == [id |-> seq.reviews, restaurant_id |-> c.restaurant_id,
                        user_id |-> user_id, rating |-> c.review.rating]
         failure ==
           IF c.review.rating < MinRating \/ c.review.rating > MaxRating
           THEN "CheckViolation"
           ELSE IF ~\E u \in users : u.id = user_id THEN "ForeignKeyViolation"
           ELSE IF ReviewKeyTaken(reviews, c.restaurant_id, user_id) THEN "UniqueViolation"
           ELSE ""
     IN /\ ~ReviewKeyTaken(PendingReviews(k), c.restaurant_id, user_id)
        /\ seq.reviews <= MaxReviewInserts
        /\ seq' = [seq EXCEPT !.reviews = @ + 1]
        /\ IF failure # ""
           THEN /\ resp' = ServerError("add_review", c.cred, args, failure)
                /\ pool' = [pool EXCEPT ![k] = None]
           ELSE /\ pool' = [pool EXCEPT ![k] =
                              Some([c EXCEPT !.pc = "inserted",
                                             !.new_review = Some(new_review)])]
                /\ UNCHANGED resp
  /\ UNCHANGED <<db, tokens, now, conn>>

\* "UPDATE restaurants SET rating = (SELECT AVG ...), total_reviews =
\* (SELECT COUNT ...)" starts: its subqueries read the rows committed when
\* the statement starts and the row the connection has inserted.
review_recompute_read(k) ==
  /\ pool[k] # None
  /\ pool[k][1].op = "add_review"
  /\ pool[k][1].pc = "inserted"
  /\ LET c == pool[k][1]
         rows == RecomputedFrom(reviews \cup {c.new_review[1]}, c.restaurant_id)
     IN pool' = [pool EXCEPT ![k] =
                   Some([c EXCEPT !.pc = "computed",
                                  !.restaurant_update =
                                    Some([rating |-> AvgRating(rows),
                                          total_reviews |-> Cardinality(rows)])])]
  /\ UNCHANGED <<db, seq, tokens, now, resp, conn>>

\* The UPDATE writes the restaurant row, once no other connection holds
\* the lock of the row, with the values its subqueries have read.
review_recompute_write(k) ==
  /\ pool[k] # None
  /\ pool[k][1].op = "add_review"
  /\ pool[k][1].pc = "computed"
  /\ ~RestaurantRowLocked(k, pool[k][1].restaurant_id)
  /\ pool' = [pool EXCEPT ![k] = Some([pool[k][1] EXCEPT !.pc = "updated"])]
  /\ UNCHANGED <<db, seq, tokens, now, resp, conn>>

\* "SELECT full_name", conn.commit(), and the response.
review_commit(k) ==
  /\ pool[k] # None
  /\ pool[k][1].op = "add_review"
  /\ pool[k][1].pc = "updated"
  /\ LET c == pool[k][1]
     IN /\ reviews' = reviews \cup {c.new_review[1]}
        /\ restaurants' =
             {IF r.id = c.restaurant_id
              THEN [r EXCEPT !.rating = c.restaurant_update[1].rating,
                             !.total_reviews = c.restaurant_update[1].total_reviews]
              ELSE r : r \in restaurants}
        /\ resp' = Response("add_review", c.cred,
                            [restaurant_id |-> c.restaurant_id, review |-> c.review],
                            HTTP_200_OK, "", [row |-> c.new_review[1]], TRUE)
  /\ pool' = [pool EXCEPT ![k] = None]
  /\ UNCHANGED <<users, categories, menu_categories, menu_items, favorites,
                 seq, tokens, now, conn>>

MaxFavoriteInserts == 3

add_to_favorites(cred, restaurant_id) ==
  LET op == "add_to_favorites"
      args == [restaurant_id |-> restaurant_id]
      user_id == get_current_user_id(cred, now)
      new_favorite == [id |-> seq.favorites, user_id |-> user_id,
                       restaurant_id |-> restaurant_id]
  IN IF ~verify_token(cred, now).ok
     THEN /\ resp' = Rejected(op, cred, args, CredentialsError)
          /\ UNCHANGED <<db, seq, tokens, now, conn, pool>>
     ELSE IF ~ActiveRestaurant(restaurant_id)
     THEN /\ resp' = Response(op, cred, args, HTTP_404_NOT_FOUND, "Restaurant not found",
                              NoBody, TRUE)
          /\ UNCHANGED <<db, seq, tokens, now, conn, pool>>
     ELSE /\ seq.favorites <= MaxFavoriteInserts
          /\ seq' = [seq EXCEPT !.favorites = @ + 1]
          /\ IF ~\E u \in users : u.id = user_id
             THEN /\ resp' = ServerError(op, cred, args, "ForeignKeyViolation")
                  /\ UNCHANGED <<db, tokens, now, conn, pool>>
             ELSE /\ favorites' = IF FavoriteInserted(favorites, user_id, restaurant_id)
                                  THEN favorites \cup {new_favorite}
                                  ELSE favorites
                  /\ resp' = Response(op, cred, args, HTTP_200_OK,
                                      "Restaurant added to favorites",
                                      [rowcount |-> IF FavoriteInserted(favorites, user_id,
                                                                        restaurant_id)
                                                    THEN 1 ELSE 0], TRUE)
                  /\ UNCHANGED <<users, categories, restaurants, menu_categories,
                                 menu_items, reviews, tokens, now, conn, pool>>

remove_from_favorites(cred, restaurant_id) ==
  LET op == "remove_from_favorites"
      args == [restaurant_id |-> restaurant_id]
      user_id == get_current_user_id(cred, now)
  IN IF ~verify_token(cred, now).ok
     THEN /\ resp' = Rejected(op, cred, args, CredentialsError)
          /\ UNCHANGED <<db, seq, tokens, now, conn, pool>>
     ELSE /\ favorites' = {f \in favorites :
                             ~(f.user_id = user_id /\ f.restaurant_id = restaurant_id)}
          /\ resp' = Response(op, cred, args, HTTP_200_OK,
                              "Restaurant removed from favorites", NoBody, TRUE)
          /\ UNCHANGED <<users, categories, restaurants, menu_categories, menu_items,
                         reviews, seq, tokens, now, conn, pool>>

\* The columns a clause of get_nearby_restaurants' statement may name: those
\* of its FROM list, restaurants r LEFT JOIN categories c.
RestaurantsColumns ==
  {"id", "name", "description", "address", "latitude", "longitude", "phone", "email",
   "category_id", "owner_id", "image_url", "opening_hours", "is_active", "rating",
   "total_reviews", "created_at", "updated_at"}

CategoriesColumns == {"id", "name", "description", "icon", "is_active", "created_at"}

\* "HAVING distance <= %s": the names the HAVING clause refers to.
NearbyHavingNames == {"distance"}

\* PostgreSQL resolves the names of a HAVING clause among the columns of the
\* FROM list; "distance" is an output alias of the select list, which only
\* ORDER BY and GROUP BY may name, so the statement is rejected when it is
\* analysed, whatever the rows.
NearbyStatementValid == NearbyHavingNames \subseteq (RestaurantsColumns \cup CategoriesColumns)

RECURSIVE ISqrtFrom(_, _)
ISqrtFrom(n, k) == IF (k + 1) * (k + 1) > n THEN k ELSE ISqrtFrom(n, k + 1)

\* 6371 * acos(cos(lat1) cos(lat2) cos(lon2 - lon1) + sin(lat1) sin(lat2)) in
\* whole kilometres, for the coordinates of the model: whole degrees within
\* two degrees of (0, 0), where a degree is 111.19 km in both directions.
DistanceKm(lat1, lon1, lat2, lon2) ==
  ISqrtFrom(12363 * ((lat1 - lat2) * (lat1 - lat2) + (lon1 - lon2) * (lon1 - lon2)), 0)

Min(a, b) == IF a < b THEN a ELSE b

\* The rows of the statement: active restaurants with coordinates, within
\* radius, ascending by distance, at most limit of them.
NearbyRows(latitude, longitude, radius, limit) ==
  LET Dist(r) == DistanceKm(latitude, longitude, r.latitude[1], r.longitude[1])
      within == {r \in restaurants :
                   /\ r.is_active /\ r.latitude # None /\ r.longitude # None
                   /\ Dist(r) <= radius}
      n == Min(limit, Cardinality(within))
  IN {s \in [1..n -> within] :
        /\ \A i, j \in 1..n : i < j => s[i] # s[j] /\ Dist(s[i]) <= Dist(s[j])
        /\ \A r \in within : (\A i \in 1..n : s[i] # r) =>
                               \A i \in 1..n : Dist(s[i]) <= Dist(r)}

get_nearby_restaurants(latitude, longitude, radius, limit) ==
  LET op == "get_nearby_restaurants"
      args == [latitude |-> latitude, longitude |-> longitude, radius |-> radius,
               limit |-> limit]
  IN /\ IF ~NearbyStatementValid
        THEN resp' = ServerError(op, None, args, "UndefinedColumn")
        ELSE \E rows \in NearbyRows(latitude, longitude, radius, limit) :
               resp' = Response(op, None, args, HTTP_200_OK, "",
                                [rows |-> [i \in DOMAIN rows |->
                                             [id |-> rows[i].id,
                                              distance |-> DistanceKm(latitude, longitude,
                                                             rows[i].latitude[1],
                                                             rows[i].longitude[1])]]],
                                TRUE)
     /\ UNCHANGED <<db, seq, tokens, now, conn, pool>>

---------------------------------------------------------------------------
(* The clock.                                                              *)

Tick ==
  /\ now < MaxTime
  /\ now' = now + 1
  /\ UNCHANGED <<db, seq, tokens, resp, conn, pool>>

\* A quarter of an hour passes.
Elapse ==
  /\ now + ClockStep <= MaxMinutes
  /\ now' = now + ClockStep
  /\ UNCHANGED <<db, seq, tokens, resp, conn, pool>>

---------------------------------------------------------------------------
(* Initial state: the database as init_db leaves it, plus the one account  *)
(* no handler can create: a super_admin (register writes "customer",       *)
(* create_restaurant_with_owner writes "restaurant_admin").                *)

RootUser ==
  [id |-> 1, email |-> "root@x.com",
   password_hash |-> Some(hash_password("pw", "s1")),
   role |-> "super_admin", is_active |-> TRUE]

\* The database before the application has ever started: no rows.
Blank ==
  /\ users = {}
  /\ categories = {}
  /\ restaurants = {}
  /\ menu_categories = {}
  /\ menu_items = {}
  /\ reviews = {}
  /\ favorites = {}
  /\ seq = [users |-> 1, categories |-> 1, restaurants |-> 1, menu_categories |-> 1,
            menu_items |-> 1, reviews |-> 1, favorites |-> 1]
  /\ tokens = {}
  /\ now = 0
  /\ resp = Response("start", None, NoArgs, HTTP_200_OK, "", NoBody, FALSE)
  /\ conn = None
  /\ pool = NoConnections

Init ==
  /\ users = {RootUser}
  /\ categories = DefaultCategories
  /\ restaurants = {}
  /\ menu_categories = {}
  /\ menu_items = {}
  /\ reviews = {}
  /\ favorites = {}
  /\ seq = [users |-> 2, categories |-> Len(DefaultCategoryNames) + 1,
            restaurants |-> 1, menu_categories |-> 1, menu_items |-> 1,
            reviews |-> 1, favorites |-> 1]
  /\ tokens = {}
  /\ now = 0
  /\ resp = Response("init_db", None, NoArgs, HTTP_200_OK, "", NoBody, TRUE)
  /\ conn = None
  /\ pool = NoConnections

---------------------------------------------------------------------------
(* A later state of the same deployment, from which the specifications     *)
(* below start.  a@x.com and b@x.com have registered (user ids 2 and 3);   *)
(* the super_admin has created restaurant 1 with owner_email a@x.com and   *)
(* restaurant 2 with owner_email b@x.com, which made both restaurant       *)
(* admins; then root, a and b have logged in.  a@x.com still holds the     *)
(* customer token that register returned.                                  *)

UserA ==
  [id |-> 2, email |-> "a@x.com", password_hash |-> Some(hash_password("pw", "s1")),
   role |-> "restaurant_admin", is_active |-> TRUE]

UserB ==
  [id |-> 3, email |-> "b@x.com", password_hash |-> Some(hash_password("pw", "s2")),
   role |-> "restaurant_admin", is_active |-> TRUE]

NewRestaurant(id, owner_id, t) ==
  [id |-> id, name |-> "r", category_id |-> Some(1), owner_id |-> owner_id,
   latitude |-> None, longitude |-> None, is_active |-> TRUE,
   rating |-> DefaultRating, total_reviews |-> DefaultTotalReviews, updated_at |-> t]

RootToken == TokenFor(RootUser, 0)

CustomerTokenA == TokenFor([UserA EXCEPT !.role = RegisterRole], 0)

AdminTokenA == TokenFor(UserA, 0)

AdminTokenB == TokenFor(UserB, 0)

InitOpened ==
  /\ users = {RootUser, UserA, UserB}
  /\ categories = DefaultCategories
  /\ restaurants = {NewRestaurant(1, UserA.id, 0), NewRestaurant(2, UserB.id, 0)}
  /\ menu_categories = {}
  /\ menu_items = {}
  /\ reviews = {}
  /\ favorites = {}
  /\ seq = [users |-> 4, categories |-> Len(DefaultCategoryNames) + 1,
            restaurants |-> 3, menu_categories |-> 1, menu_items |-> 1,
            reviews |-> 1, favorites |-> 1]
  /\ tokens = {RootToken, CustomerTokenA, AdminTokenA, AdminTokenB}
  /\ now = 0
  /\ resp = Response("login", None, [email |-> "b@x.com", password |-> "pw"],
                     HTTP_200_OK, "",
                     [access_token |-> AdminTokenB, user |-> PublicUser(UserB)], TRUE)
  /\ conn = None
  /\ pool = NoConnections

---------------------------------------------------------------------------
(* The requests of the model.                                              *)

\* An id no row has.
UnknownId == 99

RestaurantIds == 1..MaxRestaurants

MenuItemIds == 1..MaxMenuRows

Unset == <<>>

\* Restaurant ids handed to the ownership gate: none, zero, real ids, unknown.
GateRestaurantIds == {None, Some(0), Some(UnknownId)} \cup {Some(i) : i \in RestaurantIds}

---------------------------------------------------------------------------
(* SpecAccess: every role-gated operation, called with every credential.   *)

\* The callers of this specification: the super_admin, a@x.com with its
\* customer token and with its restaurant_admin token, and a forged token.
AccessCallers == Credentials \ {AdminTokenB}

NextAccess ==
  \/ \E c \in AccessCallers, i \in GateRestaurantIds : CheckRestaurantAdmin(c, i)
  \/ \E c \in AccessCallers : get_dashboard_stats(c)
  \/ \E c \in AccessCallers :
       create_restaurant_with_owner(
         c, [name |-> "r", category_id |-> 1, latitude |-> None, longitude |-> None],
         "b@x.com")
  \/ \E c \in AccessCallers : get_all_restaurants(c)
  \/ \E c \in AccessCallers, d \in {Unset, "name" :> Some("r")} : update_restaurant(c, 1, d)
  \/ \E c \in AccessCallers : get_all_users(c)
  \/ \E c \in AccessCallers : get_user_details(c, 1)
  \/ \E c \in AccessCallers : get_categories(c)
  \/ \E c \in AccessCallers : create_category(c, "Vegan")
  \/ \E c \in AccessCallers : update_category(c, 1, "Fast Food")
  \/ \E c \in AccessCallers : delete_category(c, 2)
  \/ \E c \in AccessCallers : get_my_restaurant(c)
  \/ \E c \in AccessCallers : get_menu_categories(c)
  \/ \E c \in AccessCallers : create_menu_category(c, "m")
  \/ \E c \in AccessCallers : get_menu_items(c)
  \/ \E c \in AccessCallers :
       create_menu_item(c, [menu_category_id |-> 1, name |-> "i", price |-> "p"])
  \/ \E c \in AccessCallers, d \in {Unset, "name" :> Some("i")} : update_menu_item(c, 1, d)
  \/ \E c \in AccessCallers : delete_menu_item(c, 1)
  \/ \E c \in AccessCallers : update_location(c, [latitude |-> 0, longitude |-> 1])
  \/ \E c \in AccessCallers : admin_get_restaurant_reviews(c)

SpecAccess == InitOpened /\ [][NextAccess]_vars

---------------------------------------------------------------------------
(* Claims about the authorization gates, checked under SpecAccess.         *)

\* The caller of the last request, as its token decodes.
CallerValid == resp.cred # None /\ verify_token(resp.cred, now).ok

CallerRole == get_current_user_role(resp.cred, now)

CallerId == get_current_user_id(resp.cred, now)

Owns(user_id, restaurant_id) ==
  \E r \in restaurants : r.id = restaurant_id /\ r.owner_id = user_id

\* C1: for a restaurant_admin caller and a restaurant id (a positive
\* integer, as every id of the restaurants table is), the ownership gate
\* succeeds only if the restaurant exists and the caller owns it, and
\* answers Forbidden in every other case.
C1_OwnershipGate ==
  (/\ resp.op = "verify_restaurant_admin"
   /\ CallerValid
   /\ CallerRole = Some("restaurant_admin")
   /\ resp.args.restaurant_id # None
   /\ resp.args.restaurant_id[1] >= 1)
  => LET owned == Owns(CallerId, resp.args.restaurant_id[1])
     IN /\ resp.status = HTTP_200_OK => owned
        /\ ~owned => resp.status = HTTP_403_FORBIDDEN

\* C2: for a super_admin caller the ownership gate accepts every restaurant
\* id (owned by the caller, by someone else, by nobody) and answers without
\* having read the restaurants table.
C2_SuperAdminBypass ==
  (/\ resp.op = "verify_restaurant_admin"
   /\ CallerValid
   /\ CallerRole = Some("super_admin"))
  => resp.status = HTTP_200_OK /\ ~resp.queried

\* A super_admin was let through for a restaurant another user owns.
C2_Witness ==
  /\ resp.op = "verify_restaurant_admin"
  /\ CallerValid
  /\ CallerRole = Some("super_admin")
  /\ resp.args.restaurant_id # None
  /\ \E r \in restaurants : r.id = resp.args.restaurant_id[1] /\ r.owner_id # CallerId
  /\ resp.status = HTTP_200_OK

SuperAdminOps ==
  {"get_dashboard_stats", "create_restaurant_with_owner", "get_all_restaurants",
   "update_restaurant", "get_all_users", "get_user_details", "get_categories",
   "create_category", "update_category", "delete_category"}

RestaurantAdminOps ==
  {"verify_restaurant_admin", "get_my_restaurant", "get_menu_categories",
   "create_menu_category", "get_menu_items", "create_menu_item", "update_menu_item",
   "delete_menu_item", "update_location", "admin_get_restaurant_reviews"}

RequiredRoles(op) ==
  IF op \in SuperAdminOps THEN {Some("super_admin")}
  ELSE {Some("restaurant_admin"), Some("super_admin")}

\* C3: a role-gated operation called with a valid token whose role is not
\* among the roles the operation requires answers Forbidden before it has
\* opened a database connection, and no table changes.
C3_RoleGate ==
  [][(/\ resp'.op \in SuperAdminOps \cup RestaurantAdminOps
      /\ verify_token(resp'.cred, now).ok
      /\ get_current_user_role(resp'.cred, now) \notin RequiredRoles(resp'.op))
     => (/\ resp'.status = HTTP_403_FORBIDDEN
         /\ ~resp'.queried
         /\ UNCHANGED <<db, seq>>)]_vars

\* A restaurant_admin was refused a super-admin operation.
C3_Witness ==
  /\ resp.op = "create_restaurant_with_owner"
  /\ CallerValid
  /\ CallerRole = Some("restaurant_admin")
  /\ resp.status = HTTP_403_FORBIDDEN

---------------------------------------------------------------------------
(* SpecMenu: menu management by the restaurant admins and partial updates, *)
(* while the super_admin hands a@x.com one more restaurant and the clock   *)
(* advances.                                                               *)

MenuItemUpdateInputs ==
  {Unset, "name" :> None, "menu_category_id" :> None @@ "name" :> None,
   "name" :> Some("i2")}

RestaurantUpdateInputs ==
  {Unset, "name" :> None, "category_id" :> None @@ "name" :> None,
   "name" :> Some("r2")}

RestaurantAdminTokens == {t \in tokens : t.role = Some("restaurant_admin")}

NextMenu ==
  \/ create_restaurant_with_owner(
       RootToken, [name |-> "r", category_id |-> 1, latitude |-> None,
                   longitude |-> None], "a@x.com")
  \/ \E d \in RestaurantUpdateInputs : update_restaurant(RootToken, 1, d)
  \/ \E c \in RestaurantAdminTokens : create_menu_category(c, "m")
  \/ \E c \in RestaurantAdminTokens :
       create_menu_item(c, [menu_category_id |-> 1, name |-> "i", price |-> "p"])
  \/ \E c \in RestaurantAdminTokens, i \in MenuItemIds \cup {UnknownId},
        d \in MenuItemUpdateInputs : update_menu_item(c, i, d)
  \/ \E c \in RestaurantAdminTokens, i \in MenuItemIds \cup {UnknownId} :
       delete_menu_item(c, i)
  \/ Tick

SpecMenu == InitOpened /\ [][NextMenu]_vars

\* The caller of the step's request, read from the token it presented.
StepCallerValid == verify_token(resp'.cred, now).ok

StepCallerRole == get_current_user_role(resp'.cred, now)

StepCallerId == get_current_user_id(resp'.cred, now)

\* C4: update_menu_item or delete_menu_item called by a restaurant_admin
\* with the id of a menu item of a restaurant the caller does not own
\* answers NotFound with the same detail as for an id no menu item has,
\* and the menu item is neither modified nor deleted.
C4_ForeignMenuItem ==
  [][(/\ resp'.op \in {"update_menu_item", "delete_menu_item"}
      /\ StepCallerValid
      /\ StepCallerRole = Some("restaurant_admin")
      /\ \E mi \in menu_items : /\ mi.id = resp'.args.item_id
                                /\ ~Owns(StepCallerId, mi.restaurant_id))
     => (/\ resp'.status = HTTP_404_NOT_FOUND
         /\ resp'.detail = "Menu item not found"
         /\ menu_items' = menu_items)]_vars

\* C9: update_restaurant by a super_admin, or update_menu_item by the owner
\* of the item's restaurant, with every field omitted or null answers
\* InvalidInput ("No fields to update") and no table changes.
C9_EmptyPartialUpdate ==
  [][((\/ /\ resp'.op = "update_restaurant"
          /\ StepCallerValid
          /\ StepCallerRole = Some("super_admin")
          /\ update_fields(resp'.args.restaurant_data) = {}
       \/ /\ resp'.op = "update_menu_item"
          /\ StepCallerValid
          /\ StepCallerRole = Some("restaurant_admin")
          /\ \E mi \in menu_items : /\ mi.id = resp'.args.item_id
                                    /\ Owns(StepCallerId, mi.restaurant_id)
          /\ update_fields(resp'.args.menu_item) = {}))
     => (/\ resp'.status = HTTP_400_BAD_REQUEST
         /\ resp'.detail = "No fields to update"
         /\ UNCHANGED db)]_vars

---------------------------------------------------------------------------
(* SpecReview: reviews by the three users, on the two restaurants and on   *)
(* an id no restaurant has.  SpecFavorites: the same for favorites.        *)

\* Ratings a request may carry; ReviewCreate.rating is any int.
Ratings == {0, 1, 2}

ReviewCallers == {RootToken, CustomerTokenA, AdminTokenB, ForgedToken}

ReviewedIds == {r.id : r \in restaurants} \cup {UnknownId}

NextReview ==
  \E c \in ReviewCallers, r \in ReviewedIds, rating \in Ratings :
    add_review(c, r, [rating |-> rating])

SpecReview == InitOpened /\ [][NextReview]_vars

NextFavorites ==
  \/ \E c \in ReviewCallers, r \in ReviewedIds : add_to_favorites(c, r)
  \/ \E c \in ReviewCallers, r \in ReviewedIds : remove_from_favorites(c, r)

SpecFavorites == InitOpened /\ [][NextFavorites]_vars

\* C5: add_review by a user who already has a review for the restaurant
\* answers Conflict, adds no review row and leaves every restaurant's
\* rating and total_reviews as they were.
C5_SecondReviewConflict ==
  [][(/\ resp'.op = "add_review"
      /\ StepCallerValid
      /\ \E rv \in reviews : /\ rv.restaurant_id = resp'.args.restaurant_id
                             /\ rv.user_id = StepCallerId)
     => (/\ resp'.status = HTTP_400_BAD_REQUEST
         /\ resp'.detail = "You have already reviewed this restaurant"
         /\ reviews' = reviews
         /\ restaurants' = restaurants)]_vars

\* A second review was refused while the first one is stored.
C5_Witness ==
  /\ resp.op = "add_review"
  /\ resp.status = HTTP_400_BAD_REQUEST
  /\ \E rv \in reviews : /\ rv.restaurant_id = resp.args.restaurant_id
                         /\ rv.user_id = CallerId

\* q is x / n rounded to the nearest integer, a half rounding up (n > 0).
IsNearest(q, x, n) == 2 * (x - q * n) < n /\ 2 * (q * n - x) <= n

\* C6: a restaurant with N >= 1 reviews stores, as rating, the mean of
\* their ratings rounded to 2 decimal places (kept in hundredths) and, as
\* total_reviews, N.
C6_RatingIsMean ==
  \A r \in restaurants :
    LET rows == {rv \in reviews : rv.restaurant_id = r.id}
    IN rows # {} =>
         /\ IsNearest(r.rating, 100 * SumRatings(rows), Cardinality(rows))
         /\ r.total_reviews = Cardinality(rows)

\* Three reviews whose mean, 5/3, is not a multiple of 0.01.
C6_Witness ==
  \E r \in restaurants :
    LET rows == {rv \in reviews : rv.restaurant_id = r.id}
    IN /\ Cardinality(rows) = 3
       /\ SumRatings(rows) = 5
       /\ r.rating = 167

\* C7: add_to_favorites by a user for an active restaurant reports success
\* and leaves exactly one favorite row for the pair, whether or not the
\* pair was a favorite before.
C7_FavoriteIdempotent ==
  [][(/\ resp'.op = "add_to_favorites"
      /\ StepCallerValid
      /\ ActiveRestaurant(resp'.args.restaurant_id))
     => (/\ resp'.status = HTTP_200_OK
         /\ Cardinality({f \in favorites' :
                           /\ f.user_id = StepCallerId
                           /\ f.restaurant_id = resp'.args.restaurant_id}) = 1)]_vars

\* The second add for a pair: nothing was inserted and success was reported.
C7_Witness ==
  /\ resp.op = "add_to_favorites"
  /\ resp.status = HTTP_200_OK
  /\ resp.body.rowcount = 0
  /\ Cardinality({f \in favorites : /\ f.user_id = CallerId
                                    /\ f.restaurant_id = resp.args.restaurant_id}) = 1

---------------------------------------------------------------------------
(* SpecNearby: the two restaurant admins set their coordinates, and anyone *)
(* searches around a point.                                                *)

Degrees == {0, 1}

Radii == {0, 112, 200}

Limits == {1, 2}

NextNearby ==
  \/ \E c \in {AdminTokenA, AdminTokenB}, lat \in Degrees, lon \in Degrees :
       update_location(c, [latitude |-> lat, longitude |-> lon])
  \/ \E lat \in Degrees, lon \in Degrees, radius \in Radii, limit \in Limits :
       get_nearby_restaurants(lat, lon, radius, limit)

SpecNearby == InitOpened /\ [][NextNearby]_vars

\* C8: the nearby search answers with at most limit restaurants, each
\* active, with coordinates and within the radius of the query point, in
\* ascending order of distance.
C8_NearbySearch ==
  resp.op = "get_nearby_restaurants" =>
    /\ resp.status = HTTP_200_OK
    /\ Len(resp.body.rows) <= resp.args.limit
    /\ \A i \in DOMAIN resp.body.rows :
         /\ resp.body.rows[i].distance <= resp.args.radius
         /\ \E r \in restaurants : /\ r.id = resp.body.rows[i].id
                                   /\ r.is_active
                                   /\ r.latitude # None /\ r.longitude # None
    /\ \A i, j \in DOMAIN resp.body.rows :
         i < j => resp.body.rows[i].distance <= resp.body.rows[j].distance

---------------------------------------------------------------------------
(* SpecAuth: from the fresh deployment, people register and log in, and    *)
(* the super_admin, once logged in, creates restaurants for an account     *)
(* that may or may not exist yet.                                          *)

SuperAdminTokens == {t \in tokens : t.role = Some("super_admin")}

NextAuth ==
  \/ \E e \in {"a@x.com", "b@x.com"}, p \in Passwords, salt \in Salts :
       register(e, p, salt)
  \/ \E e \in Emails, p \in Passwords : login(e, p)
  \/ \E c \in SuperAdminTokens, e \in {"a@x.com", "c@x.com"} :
       create_restaurant_with_owner(
         c, [name |-> "r", category_id |-> 1, latitude |-> None, longitude |-> None], e)

SpecAuth == Init /\ [][NextAuth]_vars

\* C10: register stores the new user with role customer, and a login with
\* the same email and password right after it answers with a token whose
\* decoded role is customer and whose subject is the id of that user.
C10_RegisterThenLogin ==
  [][/\ (resp'.op = "register" /\ resp'.status = HTTP_200_OK)
          => \E u \in users' \ users : /\ u.email = resp'.args.email
                                       /\ u.id = resp'.body.user.id
                                       /\ u.role = "customer"
     /\ (/\ resp.op = "register" /\ resp.status = HTTP_200_OK
         /\ resp'.op = "login" /\ resp'.args = resp.args)
          => /\ resp'.status = HTTP_200_OK
             /\ verify_token(resp'.body.access_token, now').ok
             /\ get_current_user_role(resp'.body.access_token, now') = Some("customer")
             /\ get_current_user_id(resp'.body.access_token, now') = resp.body.user.id]_vars

\* A login of a registered customer, with the customer's token as answer.
C10_Witness ==
  /\ resp.op = "login"
  /\ resp.status = HTTP_200_OK
  /\ resp.body.user.role = "customer"
  /\ get_current_user_role(resp.body.access_token, now) = Some("customer")
  /\ get_current_user_id(resp.body.access_token, now) = resp.body.user.id
  /\ \E u \in users : u.id = resp.body.user.id /\ u.email = resp.args.email

---------------------------------------------------------------------------
(* Login failures.                                                         *)

\* C11: login answers Unauthenticated and issues no token whenever no active
\* user has the email or the password does not verify against the stored
\* hash; an account stored without a password hash verifies no password.
C11_LoginRejects ==
  [][(/\ resp'.op = "login"
      /\ ~\E u \in users : /\ u.email = resp'.args.email
                           /\ u.is_active
                           /\ u.password_hash # None
                           /\ verify_password(resp'.args.password, u.password_hash[1]))
     => (/\ resp'.status = HTTP_401_UNAUTHORIZED
         /\ tokens' = tokens)]_vars

---------------------------------------------------------------------------
(* Menu categories and the items in them.                                  *)

\* C12: create_menu_item by a caller who owns a restaurant, with a
\* menu_category_id that no menu category of a restaurant of the caller has
\* (a category of another restaurant, or of none), answers InvalidInput
\* ("Invalid menu category") and inserts no menu item.
C12_ForeignMenuCategory ==
  [][(/\ resp'.op = "create_menu_item"
      /\ StepCallerValid
      /\ StepCallerRole \in AdminRoles
      /\ OwnedRestaurants(StepCallerId) # {}
      /\ ~\E mc \in menu_categories :
             /\ mc.id = resp'.args.menu_item.menu_category_id
             /\ Owns(StepCallerId, mc.restaurant_id))
     => (/\ resp'.status = HTTP_400_BAD_REQUEST
         /\ resp'.detail = "Invalid menu category"
         /\ menu_items' = menu_items)]_vars

\* An item was refused for a category that exists in another restaurant.
C12_Witness ==
  /\ resp.op = "create_menu_item"
  /\ resp.status = HTTP_400_BAD_REQUEST
  /\ \E mc \in menu_categories :
       /\ mc.id = resp.args.menu_item.menu_category_id
       /\ ~Owns(CallerId, mc.restaurant_id)

\* SpecItems: the two restaurant admins build their menus and move items
\* between menu categories.
MenuCategoryIds == 1..MaxMenuCategories

NextItems ==
  \/ \E c \in RestaurantAdminTokens : create_menu_category(c, "m")
  \/ \E c \in RestaurantAdminTokens, mc \in MenuCategoryIds :
       create_menu_item(c, [menu_category_id |-> mc, name |-> "i", price |-> "p"])
  \/ \E c \in RestaurantAdminTokens, i \in MenuItemIds, mc \in MenuCategoryIds :
       update_menu_item(c, i, "menu_category_id" :> Some(mc))
  \/ \E c \in RestaurantAdminTokens, i \in MenuItemIds : delete_menu_item(c, i)

SpecItems == InitOpened /\ [][NextItems]_vars

\* C13: every menu item is in a menu category of its own restaurant.
C13_ItemCategorySameRestaurant ==
  \A mi \in menu_items :
    \E mc \in menu_categories : /\ mc.id = mi.menu_category_id
                                /\ mc.restaurant_id = mi.restaurant_id

---------------------------------------------------------------------------
(* SpecCategories: the super_admin manages the categories while            *)
(* restaurants refer to them.                                              *)

CategoryIds == {1, 2, UnknownId}

CategoryNames == {"Vegan", "Cafe"}

NextCategories ==
  \/ \E c \in {RootToken, AdminTokenA} : get_categories(c)
  \/ \E c \in {RootToken, AdminTokenA}, n \in CategoryNames : create_category(c, n)
  \/ \E c \in {RootToken, AdminTokenA}, i \in CategoryIds, n \in CategoryNames :
       update_category(c, i, n)
  \/ \E c \in {RootToken, AdminTokenA}, i \in CategoryIds : delete_category(c, i)
  \/ \E c \in {RootToken, AdminTokenA}, i \in CategoryIds :
       create_restaurant_with_owner(
         c, [name |-> "r", category_id |-> i, latitude |-> None, longitude |-> None],
         "a@x.com")

SpecCategories == InitOpened /\ [][NextCategories]_vars

\* C14: delete_category by a super_admin, for a category a restaurant
\* refers to, answers with a client error (4xx) and the categories stay as
\* they are; and no restaurant refers to a category that is not there.
C14_DeleteReferencedCategory ==
  [][/\ (/\ resp'.op = "delete_category"
         /\ StepCallerValid
         /\ StepCallerRole = Some("super_admin")
         /\ \E r \in restaurants : r.category_id = Some(resp'.args.category_id))
          => (/\ resp'.status \in 400..499
              /\ categories' = categories)
     /\ \A r \in restaurants' :
          r.category_id # None => \E c \in categories' : c.id = r.category_id[1]]_vars

---------------------------------------------------------------------------
(* The owner of a new restaurant.                                          *)

\* C15: a successful create_restaurant_with_owner adds one restaurant; if a
\* user has owner_email, no user row is added, that user becomes
\* restaurant_admin (nothing else of it and no other user changes) and owns
\* the restaurant; otherwise exactly one user row is added, with
\* owner_email, role restaurant_admin and no password hash, and it owns the
\* restaurant.
C15_RestaurantOwner ==
  [][(resp'.op = "create_restaurant_with_owner" /\ resp'.status = HTTP_200_OK)
     => \E r \in restaurants' \ restaurants :
          /\ restaurants' = restaurants \cup {r}
          /\ IF \E u \in users : u.email = resp'.args.owner_email
             THEN \E u \in users :
                    /\ u.email = resp'.args.owner_email
                    /\ users' = (users \ {u}) \cup {[u EXCEPT !.role = "restaurant_admin"]}
                    /\ r.owner_id = u.id
             ELSE \E n \in users' \ users :
                    /\ users' = users \cup {n}
                    /\ n.email = resp'.args.owner_email
                    /\ n.role = "restaurant_admin"
                    /\ n.password_hash = None
                    /\ r.owner_id = n.id]_vars

\* A restaurant was created for an account that did not exist before.
C15_Witness ==
  /\ resp.op = "create_restaurant_with_owner"
  /\ resp.status = HTTP_200_OK
  /\ \E u \in users : /\ u.email = resp.args.owner_email
                      /\ u.password_hash = None
                      /\ u.id = resp.body.row.owner_id

\* A restaurant was created for a registered customer, who became its admin.
C15_WitnessExisting ==
  /\ resp.op = "create_restaurant_with_owner"
  /\ resp.status = HTTP_200_OK
  /\ \E u \in users : /\ u.email = resp.args.owner_email
                      /\ u.password_hash # None
                      /\ u.role = "restaurant_admin"
                      /\ u.id = resp.body.row.owner_id

---------------------------------------------------------------------------
(* SpecTokens: time passes while people log in and present tokens: issued  *)
(* ones, and strings that were never issued.                               *)

PresentedTokens == tokens \cup {ForgedToken, MalformedToken, NoSubToken, NoRoleToken}

NextTokens ==
  \/ \E e \in {"root@x.com", "a@x.com"} : login(e, "pw")
  \/ \E c \in PresentedTokens : get_current_user(c)
  \/ \E c \in PresentedTokens : get_categories(c)
  \/ \E c \in PresentedTokens : get_my_restaurant(c)
  \/ Elapse

SpecTokens == InitOpened /\ [][NextTokens]_vars

\* C16: a token issued by a login at instant t expires at t + 30 minutes; an
\* issued token is accepted at every instant before its expiry and answered
\* Unauthenticated at every instant after it; a token that is expired stays
\* expired; a token with a bad signature or a malformed one is always
\* answered Unauthenticated.
C16_TokenExpiry ==
  [][/\ (now' = now /\ resp'.op = "login" /\ resp'.status = HTTP_200_OK)
          => resp'.body.access_token.exp = now + 30
     /\ (now' = now
         /\ resp'.op \in {"get_current_user", "get_categories", "get_my_restaurant"})
          => /\ (resp'.cred \in tokens /\ now < resp'.cred.exp)
                  => resp'.status # HTTP_401_UNAUTHORIZED
             /\ (resp'.cred \in tokens /\ now > resp'.cred.exp)
                  => resp'.status = HTTP_401_UNAUTHORIZED
             /\ resp'.cred \in {ForgedToken, MalformedToken}
                  => resp'.status = HTTP_401_UNAUTHORIZED
     /\ \A c \in tokens : ~verify_token(c, now).ok => ~verify_token(c, now').ok]_vars

\* A token issued a quarter of an hour after the start is refused 45 minutes
\* after the start, having been accepted before.
C16_Witness ==
  /\ resp.op = "get_current_user"
  /\ resp.cred \in tokens
  /\ resp.cred.exp > 30
  /\ now > resp.cred.exp - 30
  /\ resp.status = HTTP_401_UNAUTHORIZED

\* C17: a correctly signed, unexpired token without the subject claim, or
\* without the role claim, is answered Unauthenticated by every protected
\* operation.
C17_MissingClaim ==
  [][(/\ now' = now
      /\ resp'.op \in {"get_current_user", "get_categories", "get_my_restaurant"}
      /\ resp'.cred.sig = "valid"
      /\ now < resp'.cred.exp
      /\ (resp'.cred.sub = None \/ resp'.cred.role = None))
     => resp'.status = HTTP_401_UNAUTHORIZED]_vars

---------------------------------------------------------------------------
(* SpecStart: the application starts, for the first time on a blank        *)
(* database or again on a populated one, while the super_admin adds and    *)
(* renames categories.                                                     *)

NextStart ==
  \/ init_db
  \/ \E n \in CategoryNames : create_category(RootToken, n)
  \/ \E i \in {1, 3}, n \in CategoryNames : update_category(RootToken, i, n)
  \/ get_categories(RootToken)

SpecStart == (Blank \/ InitOpened) /\ [][NextStart]_vars

HasDefaultNames(cats) ==
  \A i \in DOMAIN DefaultCategoryNames : \E c \in cats : c.name = DefaultCategoryNames[i]

\* C18: init_db on the blank database creates exactly the ten default
\* categories; init_db on a state that has all ten names succeeds and
\* leaves the categories as they are; and init_db never leaves two
\* categories with one name.
C18_InitIdempotent ==
  [][resp'.op = "init_db" /\ seq' # seq
     => /\ resp'.status = HTTP_200_OK
        /\ categories = {}
             => /\ Cardinality(categories') = 10
                /\ HasDefaultNames(categories')
        /\ HasDefaultNames(categories) => categories' = categories
        /\ \A c, d \in categories' : c.name = d.name => c = d]_vars

\* init_db has run again on a database that had the ten default names.
C18_Witness ==
  /\ resp.op = "init_db"
  /\ seq.categories > 2 * Len(DefaultCategoryNames)
  /\ HasDefaultNames(categories)
  /\ Cardinality(categories) >= 10

---------------------------------------------------------------------------
(* SpecUnits: requests that write with more than one statement, served     *)
(* while other requests read.  add_review is taken statement by statement; *)
(* create_restaurant_with_owner, with an existing account as the owner,    *)
(* fails on an unknown category after the owner statement.                 *)

UnitRestaurantIds == {1, 2}

NextUnits ==
  \/ \E i \in {1, UnknownId} :
       create_restaurant_with_owner(
         RootToken, [name |-> "r", category_id |-> i, latitude |-> None, longitude |-> None],
         "root@x.com")
  \/ \E c \in {CustomerTokenA, AdminTokenB}, r \in UnitRestaurantIds,
        rating \in {MinRating - 1, MaxRating} :
       add_review_insert(c, r, [rating |-> rating])
  \/ add_review_recompute
  \/ add_review_commit
  \/ add_review_fail
  \/ \E r \in UnitRestaurantIds : get_restaurant_detail(r)
  \/ \E r \in UnitRestaurantIds : get_restaurant_reviews(r)

SpecUnits == InitOpened /\ [][NextUnits]_vars

\* C19: a request that ends with an error leaves every table as it was
\* before the request, whatever its statements had written: the owner
\* created or escalated by a create_restaurant_with_owner whose restaurant
\* insert fails, and the review inserted by an add_review that fails later,
\* are in no table afterwards.
C19_AllOrNothing ==
  [][(resp'.status # HTTP_200_OK /\ (conn' = None \/ conn' = conn))
       => /\ UNCHANGED db
          /\ (conn # None /\ conn' = None) => conn[1].new_review \notin reviews']_vars

\* create_restaurant_with_owner has set the role of the owner, whose role
\* was another one, and has then failed on the restaurant insert.
C19_Witness ==
  /\ resp.op = "create_restaurant_with_owner"
  /\ resp.status = HTTP_500_INTERNAL_SERVER_ERROR
  /\ resp.detail = "ForeignKeyViolation"
  /\ \E u \in users : u.email = resp.args.owner_email /\ u.role # OwnerRole

\* An add_review has inserted its review and has then failed.
C19_WitnessReview ==
  /\ resp.op = "add_review"
  /\ resp.detail = "OperationalError"
  /\ seq.reviews > Cardinality(reviews) + 1

\* C20: in every state other requests can read, also while an add_review
\* is between its INSERT and its commit, the review of that add_review is
\* not among the reviews, and every restaurant that has a review carries
\* the number and the mean of exactly the reviews that can be read.
C20_ReviewVisibleWithRating ==
  /\ conn # None => conn[1].new_review \notin reviews
  /\ \A rv \in reviews : \A r \in restaurants :
       r.id = rv.restaurant_id
         => /\ r.total_reviews = Cardinality(ReviewsOf(reviews, r.id))
            /\ r.rating = AvgRating(ReviewsOf(reviews, r.id))

\* get_restaurant_reviews has answered for the restaurant of an add_review
\* that has recomputed the rating and not committed yet; the answer has an
\* earlier review and not the new one.
C20_Witness ==
  /\ conn # None
  /\ conn[1].restaurant_update # None
  /\ resp.op = "get_restaurant_reviews"
  /\ resp.args.restaurant_id = conn[1].restaurant_id
  /\ resp.body.rows # {}
  /\ conn[1].new_review \notin resp.body.rows

---------------------------------------------------------------------------
\* C21: create_category, or update_category, by a super_admin with a name
\* another category already has answers with a client error (4xx), not
\* with the server error, and leaves the categories as they were; the names
\* of the categories stay pairwise distinct.
C21_DuplicateCategoryName ==
  [][/\ (/\ resp'.op = "create_category"
         /\ StepCallerValid
         /\ StepCallerRole = Some("super_admin")
         /\ \E c \in categories : c.name = resp'.args.name)
          => (/\ resp'.status \in 400..499
              /\ categories' = categories)
     /\ (/\ resp'.op = "update_category"
         /\ StepCallerValid
         /\ StepCallerRole = Some("super_admin")
         /\ \E c \in categories : c.id = resp'.args.category_id
         /\ \E c \in categories : c.id # resp'.args.category_id /\ c.name = resp'.args.name)
          => (/\ resp'.status \in 400..499
              /\ categories' = categories)
     /\ \A c, d \in categories' : c.name = d.name => c = d]_vars

---------------------------------------------------------------------------
\* C23: every user with role restaurant_admin is the owner of at most one
\* restaurant, so a lookup of restaurants by owner_id matches at most one.
C23_OneRestaurantPerOwner ==
  \A u \in users :
    u.role = "restaurant_admin"
      => Cardinality({r \in restaurants : r.owner_id = u.id}) <= 1

\* C27: no step changes the role of a user whose role is super_admin, and
\* no step gives the role super_admin to a user who did not have it.
C27_SuperAdminRoleKept ==
  [][/\ \A u \in users : u.role = "super_admin"
          => \E v \in users' : v.id = u.id /\ v.role = "super_admin"
     /\ \A v \in users' : v.role = "super_admin"
          => \E u \in users : u.id = v.id /\ u.role = "super_admin"]_vars

---------------------------------------------------------------------------
(* SpecRestaurant: the super_admin updates restaurants with bodies that    *)
(* omit fields, send null and send values, while restaurants are reviewed. *)

RestaurantUpdateBodies ==
  {Unset, "latitude" :> None, "latitude" :> Some(5),
   "name" :> Some("r2") @@ "latitude" :> None,
   "category_id" :> Some(2), "category_id" :> Some(UnknownId)}

NextRestaurant ==
  \/ \E i \in {1, UnknownId}, d \in RestaurantUpdateBodies :
       update_restaurant(RootToken, i, d)
  \/ \E c \in {CustomerTokenA, AdminTokenB} : add_review(c, 1, [rating |-> 2])
  \/ Tick

SpecRestaurant == InitOpened /\ [][NextRestaurant]_vars

\* The value a successful update_restaurant leaves in column f of row r.
C24_Expected(r, data, f) ==
  IF f \in DOMAIN data /\ data[f] # None
  THEN IF f = "name" THEN data[f][1] ELSE data[f]
  ELSE r[f]

\* C24: a successful update_restaurant sets, on the restaurant with the
\* given id, the columns the request carries a non-null value for, and
\* updated_at; every other column of that restaurant, rating,
\* total_reviews, owner_id and is_active among them, and every other
\* restaurant stay as they were.  A step that changes the rating or the
\* total_reviews of a restaurant is an add_review.
C24_UpdateRestaurantFrame ==
  [][/\ (now' = now /\ resp'.op = "update_restaurant" /\ resp'.status = HTTP_200_OK)
          => \A r \in restaurants :
               IF r.id = resp'.args.restaurant_id
               THEN \E u \in restaurants' :
                      /\ u.id = r.id
                      /\ u.name = C24_Expected(r, resp'.args.restaurant_data, "name")
                      /\ u.category_id =
                           C24_Expected(r, resp'.args.restaurant_data, "category_id")
                      /\ u.latitude = C24_Expected(r, resp'.args.restaurant_data, "latitude")
                      /\ u.longitude = r.longitude
                      /\ u.updated_at = now
                      /\ u.rating = r.rating
                      /\ u.total_reviews = r.total_reviews
                      /\ u.owner_id = r.owner_id
                      /\ u.is_active = r.is_active
               ELSE r \in restaurants'
     /\ (\E r \in restaurants : \E u \in restaurants' :
            u.id = r.id /\ (u.rating # r.rating \/ u.total_reviews # r.total_reviews))
          => (resp'.op = "add_review" /\ resp'.status = HTTP_200_OK)]_vars

\* update_restaurant has succeeded with a body that carries a value for one
\* field and null for another, on a restaurant that has reviews and whose
\* latitude was set before.
C24_Witness ==
  /\ resp.op = "update_restaurant"
  /\ resp.status = HTTP_200_OK
  /\ resp.args.restaurant_data = ("name" :> Some("r2") @@ "latitude" :> None)
  /\ resp.body.row.latitude = Some(5)
  /\ resp.body.row.total_reviews > 0

---------------------------------------------------------------------------
(* SpecRoleChange: a@x.com registers as a customer, the super_admin makes  *)
(* it the owner of a restaurant, it logs in again, and every token it has  *)
(* been issued is presented to the restaurant-admin operations as time     *)
(* passes.                                                                 *)

AdminScopedOps ==
  {"get_my_restaurant", "get_menu_categories", "get_menu_items"}

NextRoleChange ==
  \/ register("a@x.com", "pw", "s1")
  \/ create_restaurant_with_owner(
       RootToken, [name |-> "r", category_id |-> 1, latitude |-> None, longitude |-> None],
       "a@x.com")
  \/ login("a@x.com", "pw")
  \/ \E c \in tokens : get_my_restaurant(c)
  \/ \E c \in tokens : get_menu_categories(c)
  \/ \E c \in tokens : get_menu_items(c)
  \/ Elapse

SpecRoleChange == Init /\ [][NextRoleChange]_vars

\* C28: a restaurant-admin operation called with an issued token answers
\* by the role in the token, whatever role is stored for the user: a token
\* with role customer is answered Forbidden until it expires and
\* Unauthenticated afterwards, also after the user's stored role has become
\* restaurant_admin, and an unexpired token with role restaurant_admin is
\* neither Forbidden nor Unauthenticated.  A login issues a token with the
\* role stored at the time of the login.
C28_TokenRoleDecides ==
  [][/\ (now' = now /\ resp'.op \in AdminScopedOps /\ resp'.cred \in tokens)
          => /\ (resp'.cred.role = Some("customer") /\ now < resp'.cred.exp)
                  => resp'.status = HTTP_403_FORBIDDEN
             /\ now > resp'.cred.exp => resp'.status = HTTP_401_UNAUTHORIZED
             /\ (resp'.cred.role = Some("restaurant_admin") /\ now < resp'.cred.exp)
                  => resp'.status \notin {HTTP_401_UNAUTHORIZED, HTTP_403_FORBIDDEN}
     /\ (now' = now /\ resp'.op = "login" /\ resp'.status = HTTP_200_OK)
          => \E u \in users : /\ u.email = resp'.args.email
                              /\ resp'.body.access_token.role = Some(u.role)
                              /\ resp'.body.access_token.sub = Some(DecStr(u.id))]_vars

\* The customer token of a user whose stored role has become
\* restaurant_admin, and who holds a restaurant_admin token from a later
\* login, has been answered Forbidden.
C28_Witness ==
  /\ resp.op \in AdminScopedOps
  /\ resp.cred \in tokens
  /\ resp.cred.role = Some("customer")
  /\ resp.status = HTTP_403_FORBIDDEN
  /\ \E u \in users : Some(DecStr(u.id)) = resp.cred.sub /\ u.role = "restaurant_admin"
  /\ \E c \in tokens : c.sub = resp.cred.sub /\ c.role = Some("restaurant_admin")

---------------------------------------------------------------------------
(* SpecRegister: register requests that overlap with each other and with   *)
(* create_restaurant_with_owner.                                           *)

NextRegister ==
  \/ \E k \in ConnectionIds, e \in {"a@x.com", "c@x.com"}, p \in Passwords :
       register_select(k, e, p, "s1")
  \/ \E k \in ConnectionIds : register_insert(k)
  \/ \E e \in {"a@x.com", "c@x.com"} :
       create_restaurant_with_owner(
         RootToken, [name |-> "r", category_id |-> 1, latitude |-> None, longitude |-> None],
         e)

SpecRegister == Init /\ [][NextRegister]_vars

\* C22: a register request for an email a user has when the request
\* arrives answers 400 "Email already registered" and leaves the users as
\* they were; and after every step, of register requests that overlap and
\* of create_restaurant_with_owner, no two users have the same email.
C22_EmailUnique ==
  [][/\ (/\ resp'.op = "register"
         /\ pool' = pool
         /\ \E u \in users : u.email = resp'.args.email)
          => (/\ resp'.status = HTTP_400_BAD_REQUEST
              /\ resp'.detail = "Email already registered"
              /\ users' = users)
     /\ \A u, v \in users' : u.email = v.email => u = v]_vars

\* Two register requests for one email have overlapped: both have passed
\* the SELECT, one has committed its user and the other has failed on its
\* INSERT.
C22_Witness ==
  /\ resp.op = "register"
  /\ resp.detail = "UniqueViolation"
  /\ \E u \in users : u.email = resp.args.email /\ u.role = RegisterRole

---------------------------------------------------------------------------
(* SpecOverlap: add_review requests of two users that overlap.             *)
(* SpecSameUser: add_review requests of one user that overlap.             *)

NextOverlap ==
  \/ \E k \in ConnectionIds, c \in {CustomerTokenA, AdminTokenB}, rating \in {1, 4} :
       review_select(k, c, 1, [rating |-> rating])
  \/ \E k \in ConnectionIds : review_insert(k)
  \/ \E k \in ConnectionIds : review_recompute_read(k)
  \/ \E k \in ConnectionIds : review_recompute_write(k)
  \/ \E k \in ConnectionIds : review_commit(k)

SpecOverlap == InitOpened /\ [][NextOverlap]_vars

NextSameUser ==
  \/ \E k \in ConnectionIds, r \in {1, 2}, rating \in {1, 4} :
       review_select(k, CustomerTokenA, r, [rating |-> rating])
  \/ \E k \in ConnectionIds : review_insert(k)
  \/ \E k \in ConnectionIds : review_recompute_read(k)
  \/ \E k \in ConnectionIds : review_recompute_write(k)
  \/ \E k \in ConnectionIds : review_commit(k)

SpecSameUser == InitOpened /\ [][NextSameUser]_vars

\* C25: when no add_review is in progress, every restaurant that has
\* reviews carries their number as total_reviews and their mean as rating.
C25_OverlapConverges ==
  pool = NoConnections
    => \A r \in restaurants :
         LET rows == ReviewsOf(reviews, r.id)
         IN rows # {} => /\ r.total_reviews = Cardinality(rows)
                         /\ r.rating = AvgRating(rows)

OneRowPerPair ==
  \A rv, rw \in reviews :
    (rv.restaurant_id = rw.restaurant_id /\ rv.user_id = rw.user_id) => rv = rw

\* C26: the reviews never hold two rows for one (restaurant, user) pair,
\* also when add_review requests of one user for one restaurant overlap
\* and both pass the "already reviewed" SELECT; and when no add_review is
\* in progress, total_reviews of every reviewed restaurant is the number
\* of its review rows, one per pair.
C26_OneReviewPerPair ==
  /\ OneRowPerPair
  /\ pool = NoConnections
       => \A r \in restaurants :
            ReviewsOf(reviews, r.id) # {}
              => r.total_reviews = Cardinality(ReviewsOf(reviews, r.id))

\* Two add_review requests of one user for one restaurant have overlapped:
\* one has committed its review and the other, which had passed the SELECT
\* before, has failed on its INSERT.
C26_Witness ==
  /\ resp.op = "add_review"
  /\ resp.detail = "UniqueViolation"
  /\ pool = NoConnections
  /\ \E rv \in reviews : /\ rv.restaurant_id = resp.args.restaurant_id
                         /\ rv.user_id = get_current_user_id(resp.cred, now)

====
